---- MODULE Spec2Model ----
(***************************************************************************)
(* Presigned-URL signer for Cloudflare R2 (AWS Signature Version 4).      *)
(* Two implementations are modelled side by side:                          *)
(*   - the Cloudflare Worker   workers/r2-signer/src/worker.js  (fetch)    *)
(*   - the Vercel function     api/r2-sign.js                   (handler)  *)
(*                                                                         *)
(* A JavaScript string is a sequence of UTF-16 code units; each code unit  *)
(* is written as a one-character TLA+ string (a few code units that have   *)
(* no TLA+ literal are written as named tokens, see Code).  Bytes are      *)
(* integers 0..255.  SHA-256 and HMAC-SHA256 are an idealised, lazily      *)
(* sampled injective oracle: the variable oracle lists the distinct        *)
(* queries made so far and a query's digest is fixed by its position.      *)
(***************************************************************************)
EXTENDS Integers, Sequences, FiniteSets, TLC

VARIABLES env, clock, oracle, calls, log

\* The browser side: the objects in the R2 bucket, the rows of the files
\* table, and the upload panel of each client.
VARIABLES bucket, rows, panels

\* The invocation of the client helper getSignedUrl.
VARIABLE client

vars == <<env, clock, oracle, calls, log, bucket, rows, panels, client>>

(***************************************************************************)
(* Bounds of the model.                                                    *)
(***************************************************************************)
MaxKeyLen == 2
MaxTicks == 2
TickMs == 1000
ClockBase == 1735689598
MaxEncodeLen == 2
MaxBatch == 2

(***************************************************************************)
(* JavaScript strings.                                                     *)
(***************************************************************************)
Str(s) == [i \in 1..Len(s) |-> SubSeq(s, i, i)]

\* A high surrogate with no low surrogate after it (U+D800) and a non-ASCII
\* letter (U+00E9); the backtick (U+0060) has no TLA+ string literal.
LoneSurrogate == "U+D800"
EAcute == "U+00E9"
Backtick == "U+0060"

Ascii == Str(" !\"#$%&'()*+,-./0123456789:;<=>?@ABCDEFGHIJKLMNOPQRSTUVWXYZ[\\]^_") \o <<Backtick>> \o Str("abcdefghijklmnopqrstuvwxyz{|}~")

\* charCodeAt: the UTF-16 code unit of a character.
Code(c) ==
  IF c = "\n" THEN 10
  ELSE IF c = LoneSurrogate THEN 55296
  ELSE IF c = EAcute THEN 233
  ELSE 31 + (CHOOSE i \in 1..Len(Ascii) : Ascii[i] = c)

HexDigitsLower == Str("0123456789abcdef")
HexDigitsUpper == Str("0123456789ABCDEF")

\* Number.prototype.toString(16) of a byte.
toString16(n) ==
  IF n < 16 THEN <<HexDigitsLower[n + 1]>>
  ELSE <<HexDigitsLower[(n \div 16) + 1], HexDigitsLower[(n % 16) + 1]>>

toUpperCase(s) ==
  [i \in 1..Len(s) |->
     IF \E k \in 1..16 : HexDigitsLower[k] = s[i]
       THEN HexDigitsUpper[CHOOSE k \in 1..16 : HexDigitsLower[k] = s[i]]
       ELSE s[i]]

\* String.prototype.padStart(n, fill) for a one-character fill.
padStart(s, n, fill) ==
  IF Len(s) >= n THEN s ELSE [i \in 1..(n - Len(s)) |-> fill] \o s

\* String.prototype.slice(0, n).
\* Mutant of slice0: the whole string.
slice0_whole(s, n) == s

slice0(s, n) == SubSeq(s, 1, IF Len(s) < n THEN Len(s) ELSE n)

\* The concatenation of a sequence of strings (by halves).
RECURSIVE Flatten(_)
Flatten(ss) ==
  IF Len(ss) = 0 THEN <<>>
  ELSE IF Len(ss) = 1 THEN ss[1]
  ELSE LET m == Len(ss) \div 2
       IN  Flatten(SubSeq(ss, 1, m)) \o Flatten(SubSeq(ss, m + 1, Len(ss)))

\* Array.prototype.join(sep).
join(parts, sep) ==
  Flatten([i \in 1..Len(parts) |-> IF i = 1 THEN parts[i] ELSE sep \o parts[i]])

\* s has t as a substring starting at position i.
MatchAt(s, t, i) ==
  /\ i >= 1
  /\ i + Len(t) - 1 <= Len(s)
  /\ \A k \in 1..Len(t) : s[i + k - 1] = t[k]

Contains(s, t) == \E i \in 1..(Len(s) + 1) : MatchAt(s, t, i)

\* String.prototype.split(sep) for a one-character separator.
RECURSIVE split(_, _)
split(s, sep) ==
  IF \E i \in 1..Len(s) : s[i] = sep
    THEN LET i == CHOOSE j \in 1..Len(s) : s[j] = sep /\ \A k \in 1..(j - 1) : s[k] # sep
         IN  <<SubSeq(s, 1, i - 1)>> \o split(SubSeq(s, i + 1, Len(s)), sep)
    ELSE <<s>>

\* String.prototype.replace(/pat/g, rep) for a literal pattern: leftmost,
\* non-overlapping matches, left to right.
RECURSIVE replaceAll(_, _, _)
replaceAll(s, pat, rep) ==
  IF s = <<>> THEN <<>>
  ELSE IF MatchAt(s, pat, 1)
    THEN rep \o replaceAll(SubSeq(s, Len(pat) + 1, Len(s)), pat, rep)
    ELSE <<s[1]>> \o replaceAll(Tail(s), pat, rep)

\* The order of String comparison used by Array.prototype.sort(): by code
\* unit, a proper prefix first.
RECURSIVE StrLess(_, _)
StrLess(a, b) ==
  IF b = <<>> THEN FALSE
  ELSE IF a = <<>> THEN TRUE
  ELSE IF Code(a[1]) # Code(b[1]) THEN Code(a[1]) < Code(b[1])
  ELSE StrLess(Tail(a), Tail(b))

\* Mutant of sort: sorting with a comparator that ignores case.
LowerCode(c) == IF Code(c) >= 65 /\ Code(c) <= 90 THEN Code(c) + 32 ELSE Code(c)

RECURSIVE StrLessIgnoreCase(_, _)
StrLessIgnoreCase(a, b) ==
  IF b = <<>> THEN FALSE
  ELSE IF a = <<>> THEN TRUE
  ELSE IF LowerCode(a[1]) # LowerCode(b[1]) THEN LowerCode(a[1]) < LowerCode(b[1])
  ELSE StrLessIgnoreCase(Tail(a), Tail(b))

RECURSIVE sort_ignoreCase(_)
sort_ignoreCase(xs) ==
  IF xs = <<>> THEN <<>>
  ELSE LET rest == sort_ignoreCase(Tail(xs))
           x == Head(xs)
           n == Cardinality({i \in 1..Len(rest) : StrLessIgnoreCase(rest[i], x)})
       IN  SubSeq(rest, 1, n) \o <<x>> \o SubSeq(rest, n + 1, Len(rest))

\* Array.prototype.sort() without a comparator, on strings (insertion sort;
\* the result of a sort does not depend on the algorithm).
RECURSIVE sort(_)
sort(xs) ==
  IF xs = <<>> THEN <<>>
  ELSE LET rest == sort(Tail(xs))
           x == Head(xs)
           n == Cardinality({i \in 1..Len(rest) : StrLess(rest[i], x)})
       IN  SubSeq(rest, 1, n) \o <<x>> \o SubSeq(rest, n + 1, Len(rest))

(***************************************************************************)
(* JavaScript values that occur in a request body and in the environment.  *)
(* A number is held in tenths, so that one fractional digit is exact.      *)
(***************************************************************************)
Undefined == [t |-> "undefined"]
Null == [t |-> "null"]
NaN == [t |-> "number", nan |-> TRUE]
JSString(s) == [t |-> "string", s |-> s]
JSNumber(tenths) == [t |-> "number", nan |-> FALSE, tenths |-> tenths]
JSTrue == [t |-> "boolean", b |-> TRUE]

\* ToBoolean: what `!v` and `v || d` test.
ToBoolean(v) ==
  CASE v.t = "undefined" -> FALSE
    [] v.t = "null" -> FALSE
    [] v.t = "boolean" -> v.b
    [] v.t = "string" -> Len(v.s) > 0
    [] v.t = "number" -> ~v.nan /\ v.tenths # 0

\* `a || b`
OrElse(a, b) == IF ToBoolean(a) THEN a ELSE b

\* A destructuring default `{ f = d }`: applies to undefined only.
Default(v, d) == IF v = Undefined THEN d ELSE v

DecimalDigits == Str("0123456789")
IsDigit(c) == \E k \in 1..10 : DecimalDigits[k] = c
DigitValue(c) == (CHOOSE k \in 1..10 : DecimalDigits[k] = c) - 1

RECURSIVE DigitsValue(_)
DigitsValue(ds) ==
  IF ds = <<>> THEN 0 ELSE 10 * DigitsValue(SubSeq(ds, 1, Len(ds) - 1)) + DigitValue(ds[Len(ds)])

\* StringToNumber for the literals sign? digits+ ( "." digit )? and the empty
\* string; any other text of the model's inputs is not numeric.
StringToNumber(s) ==
  LET neg == Len(s) > 0 /\ s[1] = "-"
      body == IF neg THEN Tail(s) ELSE s
      parts == split(body, ".")
      AllDigits(ds) == Len(ds) > 0 /\ \A i \in 1..Len(ds) : IsDigit(ds[i])
      sign == IF neg THEN -1 ELSE 1
  IN  IF s = <<>> THEN JSNumber(0)
      ELSE IF Len(parts) = 1 /\ AllDigits(parts[1])
        THEN JSNumber(sign * 10 * DigitsValue(parts[1]))
      ELSE IF Len(parts) = 2 /\ AllDigits(parts[1]) /\ Len(parts[2]) = 1 /\ IsDigit(parts[2][1])
        THEN JSNumber(sign * (10 * DigitsValue(parts[1]) + DigitValue(parts[2][1])))
      ELSE NaN

\* Number(v)
Number(v) ==
  CASE v.t = "undefined" -> NaN
    [] v.t = "null" -> JSNumber(0)
    [] v.t = "number" -> v
    [] v.t = "string" -> StringToNumber(v.s)

RECURSIVE NatToString(_)
NatToString(n) ==
  IF n < 10 THEN <<DecimalDigits[n + 1]>>
  ELSE NatToString(n \div 10) \o <<DecimalDigits[(n % 10) + 1]>>

\* String(v) for a number or a string.
String(v) ==
  CASE v.t = "string" -> v.s
    [] v.t = "undefined" -> Str("undefined")
    [] v.t = "null" -> Str("null")
    [] v.t = "number" ->
         IF v.nan THEN Str("NaN")
         ELSE LET a == IF v.tenths < 0 THEN -v.tenths ELSE v.tenths
                  sign == IF v.tenths < 0 THEN Str("-") ELSE <<>>
              IN  IF a % 10 = 0 THEN sign \o NatToString(a \div 10)
                  ELSE sign \o NatToString(a \div 10) \o Str(".") \o NatToString(a % 10)

(***************************************************************************)
(* Percent-encoding.                                                       *)
(***************************************************************************)
\* TextEncoder.encode / Buffer.from(s, 'utf8') of one code unit.
Utf8OfUnit(c) ==
  LET u == Code(c)
  IN  IF c = LoneSurrogate THEN <<239, 191, 189>>
      ELSE IF u < 128 THEN <<u>>
      ELSE IF u < 2048 THEN <<192 + (u \div 64), 128 + (u % 64)>>
      ELSE <<224 + (u \div 4096), 128 + ((u \div 64) % 64), 128 + (u % 64)>>

Utf8(s) == Flatten([i \in 1..Len(s) |-> Utf8OfUnit(s[i])])

PercentHex(b) == <<"%">> \o toUpperCase(padStart(toString16(b), 2, "0"))

\* The characters encodeURIComponent leaves alone.
UriUnreserved == Str("ABCDEFGHIJKLMNOPQRSTUVWXYZabcdefghijklmnopqrstuvwxyz0123456789-_.!~*'()")
IsUriUnreserved(c) == \E k \in 1..Len(UriUnreserved) : UriUnreserved[k] = c

\* encodeURIComponent throws URIError on a lone surrogate.
URIMalformed(s) == \E i \in 1..Len(s) : s[i] = LoneSurrogate

\* Mutant of encodeURIComponent: the percent sign is left as it is.
encodeURIComponent_percentRaw(s) ==
  Flatten([i \in 1..Len(s) |->
     IF IsUriUnreserved(s[i]) \/ s[i] = "%" THEN <<s[i]>>
     ELSE LET bs == Utf8OfUnit(s[i]) IN Flatten([k \in 1..Len(bs) |-> PercentHex(bs[k])])])

encodeURIComponent(s) ==
  Flatten([i \in 1..Len(s) |->
     IF IsUriUnreserved(s[i]) THEN <<s[i]>>
     ELSE LET bs == Utf8OfUnit(s[i]) IN Flatten([k \in 1..Len(bs) |-> PercentHex(bs[k])])])

\* Mutant of EscapeSubDelims: the five characters stay as encodeURIComponent
\* left them.
EscapeSubDelims_none(s) == s

\* .replace(/[!'()*]/g, (c) => `%${c.charCodeAt(0).toString(16).toUpperCase()}`)
EscapeSubDelims(s) ==
  Flatten([i \in 1..Len(s) |->
     IF s[i] \in {"!", "'", "(", ")", "*"}
       THEN <<"%">> \o toUpperCase(toString16(Code(s[i])))
       ELSE <<s[i]>>])

\* Mutant of encodePathPreserveSlash: the escaped slashes are left escaped.
encodePathPreserveSlash_noReplace(input) == EscapeSubDelims(encodeURIComponent(input))

\* worker.js
encodeQueryRfc3986(input) == EscapeSubDelims(encodeURIComponent(input))
encodePathPreserveSlash(input) == replaceAll(encodeQueryRfc3986(input), Str("%2F"), Str("/"))

\* api/r2-sign.js
api_encodeQueryRfc3986(input) == EscapeSubDelims(encodeURIComponent(input))
api_encodePathPreserveSlash(input) == replaceAll(api_encodeQueryRfc3986(input), Str("%2F"), Str("/"))

\* decodeURIComponent, the inverse reading of a percent-encoded ASCII text;
\* used to read a URL back.
RECURSIVE PercentDecode(_)
PercentDecode(s) ==
  IF s = <<>> THEN <<>>
  ELSE IF s[1] = "%" /\ Len(s) >= 3
    THEN LET hi == CHOOSE k \in 1..16 : HexDigitsUpper[k] = s[2]
             lo == CHOOSE k \in 1..16 : HexDigitsUpper[k] = s[3]
             b == 16 * (hi - 1) + (lo - 1)
         IN  <<IF b = 10 THEN "\n" ELSE Ascii[b - 31]>> \o PercentDecode(SubSeq(s, 4, Len(s)))
    ELSE <<s[1]>> \o PercentDecode(Tail(s))

(***************************************************************************)
(* Dates.  clock counts milliseconds since ClockBase (seconds since the    *)
(* epoch); new Date() reads it.                                            *)
(***************************************************************************)
EpochSeconds(ms) == ClockBase + (ms \div 1000)

\* Days since the epoch to the civil date (proleptic Gregorian calendar).
CivilFromDays(days) ==
  LET z == days + 719468
      era == z \div 146097
      doe == z - era * 146097
      yoe == (doe - (doe \div 1460) + (doe \div 36524) - (doe \div 146096)) \div 365
      doy == doe - (365 * yoe + (yoe \div 4) - (yoe \div 100))
      mp == (5 * doy + 2) \div 153
      d == doy - ((153 * mp + 2) \div 5) + 1
      m == IF mp < 10 THEN mp + 3 ELSE mp - 9
      y == yoe + era * 400 + (IF m <= 2 THEN 1 ELSE 0)
  IN  [year |-> y, month |-> m, day |-> d]

getUTCFullYear(date) == CivilFromDays(EpochSeconds(date) \div 86400).year
getUTCMonth(date) == CivilFromDays(EpochSeconds(date) \div 86400).month - 1
getUTCDate(date) == CivilFromDays(EpochSeconds(date) \div 86400).day
getUTCHours(date) == (EpochSeconds(date) % 86400) \div 3600
getUTCMinutes(date) == (EpochSeconds(date) % 3600) \div 60
getUTCSeconds(date) == EpochSeconds(date) % 60
getUTCMilliseconds(date) == date % 1000

\* Mutant of toAmzDate: the seconds field is filled from the minutes.
toAmzDate_minutesAsSeconds(date) ==
  LET pad(n) == padStart(NatToString(n), 2, "0")
  IN  NatToString(getUTCFullYear(date)) \o pad(getUTCMonth(date) + 1) \o pad(getUTCDate(date))
        \o Str("T") \o pad(getUTCHours(date)) \o pad(getUTCMinutes(date))
        \o pad(getUTCMinutes(date)) \o Str("Z")

\* worker.js toAmzDate
toAmzDate(date) ==
  LET pad(n) == padStart(NatToString(n), 2, "0")
      yyyy == NatToString(getUTCFullYear(date))
      MM == pad(getUTCMonth(date) + 1)
      dd == pad(getUTCDate(date))
      HH == pad(getUTCHours(date))
      mm == pad(getUTCMinutes(date))
      ss == pad(getUTCSeconds(date))
  IN  yyyy \o MM \o dd \o Str("T") \o HH \o mm \o ss \o Str("Z")

\* api/r2-sign.js toAmzDate
api_toAmzDate(date) ==
  LET pad(n) == padStart(NatToString(n), 2, "0")
      yyyy == NatToString(getUTCFullYear(date))
      MM == pad(getUTCMonth(date) + 1)
      dd == pad(getUTCDate(date))
      HH == pad(getUTCHours(date))
      mm == pad(getUTCMinutes(date))
      ss == pad(getUTCSeconds(date))
  IN  yyyy \o MM \o dd \o Str("T") \o HH \o mm \o ss \o Str("Z")

\* Date.prototype.toISOString
toISOString(date) ==
  padStart(NatToString(getUTCFullYear(date)), 4, "0") \o Str("-")
    \o padStart(NatToString(getUTCMonth(date) + 1), 2, "0") \o Str("-")
    \o padStart(NatToString(getUTCDate(date)), 2, "0") \o Str("T")
    \o padStart(NatToString(getUTCHours(date)), 2, "0") \o Str(":")
    \o padStart(NatToString(getUTCMinutes(date)), 2, "0") \o Str(":")
    \o padStart(NatToString(getUTCSeconds(date)), 2, "0") \o Str(".")
    \o padStart(NatToString(getUTCMilliseconds(date)), 3, "0") \o Str("Z")

(***************************************************************************)
(* SHA-256 and HMAC-SHA256.  The primitives are platform code             *)
(* (crypto.subtle, node:crypto).  They are modelled as one injective      *)
(* function that is revealed query by query: the n-th distinct query is    *)
(* answered by DigestOf(n), and a repeated query by the same digest.       *)
(***************************************************************************)
DigestLen == 32

Sha256Query(data) == [alg |-> "SHA-256", key |-> <<>>, data |-> data]
HmacQuery(key, data) == [alg |-> "HMAC-SHA256", key |-> key, data |-> data]

DigestOf(n) == [j \in 1..DigestLen |-> (37 * n + 11 * j) % 256]

AskOracle(tbl, q) == IF \E i \in 1..Len(tbl) : tbl[i] = q THEN tbl ELSE Append(tbl, q)

Digest(tbl, q) ==
  LET t == AskOracle(tbl, q) IN DigestOf(CHOOSE i \in 1..Len(t) : t[i] = q)

\* Mutant of toHex: the bytes are not padded to two digits.
toHex_noPad(buffer) == Flatten([i \in 1..Len(buffer) |-> toString16(buffer[i])])

\* worker.js toHex
toHex(buffer) ==
  Flatten([i \in 1..Len(buffer) |-> padStart(toString16(buffer[i]), 2, "0")])

\* Buffer.prototype.toString('hex') / digest('hex') of node:crypto
digestHex(buffer) ==
  Flatten([i \in 1..Len(buffer) |-> padStart(toString16(buffer[i]), 2, "0")])

(***************************************************************************)
(* presignUrl.  An object literal is a sequence of <<name, value>> pairs   *)
(* in insertion order.                                                     *)
(***************************************************************************)
ObjectKeys(obj) == [i \in 1..Len(obj) |-> obj[i][1]]
Get(obj, name) == obj[CHOOSE i \in 1..Len(obj) : obj[i][1] = name][2]
Has(obj, name) == \E i \in 1..Len(obj) : obj[i][1] = name

\* Mutant of pop: the first element instead of the last.
pop_first(xs) == xs[1]

\* Array.prototype.pop() of a non-empty array
pop(xs) == xs[Len(xs)]

NoLocals ==
  [entered |-> FALSE, method |-> <<>>, host |-> <<>>, canonicalUri |-> <<>>,
   amzDate |-> <<>>, datestamp |-> <<>>, credentialScope |-> <<>>, qp |-> <<>>,
   canonicalQueryString |-> <<>>, canonicalRequest |-> <<>>,
   hashedCanonicalRequest |-> <<>>, stringToSign |-> <<>>,
   secretKey |-> <<>>, region |-> <<>>,
   kDate |-> <<>>, kRegion |-> <<>>, kService |-> <<>>, signingKey |-> <<>>,
   signature |-> <<>>, presignedUrl |-> <<>>]

\* Mutant of presignUrl_host: the method that is signed is always PUT.
presignUrl_host_methodPut(a, now) ==
  [NoLocals EXCEPT !.entered = TRUE, !.method = Str("PUT"),
     !.secretKey = a.secretKey, !.region = a.region,
     !.host = a.accountId \o Str(".r2.cloudflarestorage.com"),
     !.canonicalUri = Str("/") \o a.bucket \o Str("/") \o encodePathPreserveSlash(a.key),
     !.amzDate = toAmzDate(now)]

\* worker.js presignUrl, line 103-111: host, canonicalUri, amzDate, datestamp
\* and credentialScope.  a is the argument object, now the clock reading of
\* `new Date()`; l is the record of presignUrl's locals so far.
presignUrl_host(a, now) ==
  [NoLocals EXCEPT !.entered = TRUE, !.method = a.method,
     !.secretKey = a.secretKey, !.region = a.region,
     !.host = a.accountId \o Str(".r2.cloudflarestorage.com"),
     !.canonicalUri = Str("/") \o a.bucket \o Str("/") \o encodePathPreserveSlash(a.key),
     !.amzDate = toAmzDate(now)]

presignUrl_credentialScope(l) ==
  LET datestamp == slice0(l.amzDate, 8)
  IN  [l EXCEPT !.datestamp = datestamp,
         !.credentialScope = datestamp \o Str("/") \o l.region \o Str("/") \o Str("s3")
                               \o Str("/aws4_request")]

\* Mutant of presignUrl_qp: the disposition is added whatever the method.
presignUrl_qp_dispositionAlways(a, l) ==
  LET baseName == OrElse(JSString(pop(split(a.key, "/"))), JSString(Str("download"))).s
  IN  [l EXCEPT !.qp =
         << <<Str("X-Amz-Algorithm"), Str("AWS4-HMAC-SHA256")>>,
            <<Str("X-Amz-Credential"), a.accessKeyId \o Str("/") \o l.credentialScope>>,
            <<Str("X-Amz-Date"), l.amzDate>>,
            <<Str("X-Amz-Expires"), String(a.expires)>>,
            <<Str("X-Amz-SignedHeaders"), Str("host")>>,
            <<Str("response-content-disposition"),
              Str("attachment; filename=\"") \o baseName \o Str("\"")>> >>]

\* line 116-128: qp, with the disposition of a GET
presignUrl_qp(a, l) ==
  LET qp == << <<Str("X-Amz-Algorithm"), Str("AWS4-HMAC-SHA256")>>,
               <<Str("X-Amz-Credential"), a.accessKeyId \o Str("/") \o l.credentialScope>>,
               <<Str("X-Amz-Date"), l.amzDate>>,
               <<Str("X-Amz-Expires"), String(a.expires)>>,
               <<Str("X-Amz-SignedHeaders"), Str("host")>> >>
      baseName == OrElse(JSString(pop(split(a.key, "/"))), JSString(Str("download"))).s
  IN  [l EXCEPT !.qp =
         IF a.method = Str("GET")
           THEN Append(qp, <<Str("response-content-disposition"),
                             Str("attachment; filename=\"") \o baseName \o Str("\"")>>)
           ELSE qp]

\* line 131-134
presignUrl_canonicalQueryString(l) ==
  LET names == sort(ObjectKeys(l.qp))
  IN  [l EXCEPT !.canonicalQueryString =
         join([i \in 1..Len(names) |->
                 encodeQueryRfc3986(names[i]) \o Str("=") \o encodeQueryRfc3986(Get(l.qp, names[i]))],
              Str("&"))]

\* Mutant of presignUrl_canonicalRequest: the host header line has no
\* trailing newline.
presignUrl_canonicalRequest_noBlankLine(l) ==
  [l EXCEPT !.canonicalRequest =
     join(<<l.method, l.canonicalUri, l.canonicalQueryString, Str("host:") \o l.host,
            Str("host"), Str("UNSIGNED-PAYLOAD")>>, Str("\n"))]

\* line 135-145
presignUrl_canonicalRequest(l) ==
  [l EXCEPT !.canonicalRequest =
     join(<<l.method, l.canonicalUri, l.canonicalQueryString, Str("host:") \o l.host \o Str("\n"),
            Str("host"), Str("UNSIGNED-PAYLOAD")>>, Str("\n"))]

\* worker.js presignUrl, lines 103-145: everything before the first await.
presignUrl_sync(a, now) ==
  presignUrl_canonicalRequest(presignUrl_canonicalQueryString(
    presignUrl_qp(a, presignUrl_credentialScope(presignUrl_host(a, now)))))

\* Mutant of stringToSignOf: the date is read from the clock a second time.
stringToSignOf_secondClockRead(l, hashedCanonicalRequest) ==
  join(<<Str("AWS4-HMAC-SHA256"), toAmzDate(clock), l.credentialScope, hashedCanonicalRequest>>,
       Str("\n"))

\* worker.js line 148-153
stringToSignOf(l, hashedCanonicalRequest) ==
  join(<<Str("AWS4-HMAC-SHA256"), l.amzDate, l.credentialScope, hashedCanonicalRequest>>, Str("\n"))

\* Mutant of presignedUrlOf: the signature is written first in the query.
presignedUrlOf_signatureFirst(l, signature) ==
  Str("https://") \o l.host \o l.canonicalUri \o Str("?X-Amz-Signature=") \o signature
    \o Str("&") \o l.canonicalQueryString

\* worker.js line 158
presignedUrlOf(l, signature) ==
  Str("https://") \o l.host \o l.canonicalUri \o Str("?") \o l.canonicalQueryString
    \o Str("&X-Amz-Signature=") \o signature

\* The queries of one signature, in the order the code makes them.
\* worker.js sha256Hex (line 180-185)
Q_sha256Hex(l) == Sha256Query(Utf8(l.canonicalRequest))
\* worker.js getSignatureKey (line 205-211): hmac(`AWS4${key}`, dateStamp), then
\* hmacBuf keyed by the previous raw digest.
\* Mutant of Q_kDate: the date of the key is taken from a second reading of
\* the clock, when the HMAC is asked for.
Q_kDate_secondClockRead(l) ==
  HmacQuery(Utf8(Str("AWS4") \o l.secretKey), Utf8(slice0(toAmzDate(clock), 8)))

Q_kDate(l) == HmacQuery(Utf8(Str("AWS4") \o l.secretKey), Utf8(l.datestamp))
\* Mutant of Q_kRegion: keyed by the hex form of kDate.
Q_kRegion_hexKey(l) == HmacQuery(Utf8(toHex(l.kDate)), Utf8(l.region))

Q_kRegion(l) == HmacQuery(l.kDate, Utf8(l.region))
Q_kService(l) == HmacQuery(l.kRegion, Utf8(Str("s3")))
Q_kSigning(l) == HmacQuery(l.kService, Utf8(Str("aws4_request")))
\* worker.js hmacHexBuf (line 247-250)
Q_signature(l) == HmacQuery(l.signingKey, Utf8(l.stringToSign))

(***************************************************************************)
(* api/r2-sign.js presignUrl (lines 56-110): synchronous, node:crypto.      *)
(* s is the pair of presignUrl's locals so far and the oracle so far.      *)
(***************************************************************************)
\* line 57-65
api_presignUrl_host(a, now) ==
  [NoLocals EXCEPT !.entered = TRUE, !.method = a.method,
     !.secretKey = a.secretKey, !.region = a.region,
     !.host = a.accountId \o Str(".r2.cloudflarestorage.com"),
     !.canonicalUri = Str("/") \o a.bucket \o Str("/") \o api_encodePathPreserveSlash(a.key),
     !.amzDate = api_toAmzDate(now)]

api_presignUrl_credentialScope(l) ==
  LET datestamp == slice0(l.amzDate, 8)
  IN  [l EXCEPT !.datestamp = datestamp,
         !.credentialScope = datestamp \o Str("/") \o l.region \o Str("/") \o Str("s3")
                               \o Str("/aws4_request")]

\* line 69-79
api_presignUrl_qp(a, l) ==
  LET qp == << <<Str("X-Amz-Algorithm"), Str("AWS4-HMAC-SHA256")>>,
               <<Str("X-Amz-Credential"), a.accessKeyId \o Str("/") \o l.credentialScope>>,
               <<Str("X-Amz-Date"), l.amzDate>>,
               <<Str("X-Amz-Expires"), String(a.expires)>>,
               <<Str("X-Amz-SignedHeaders"), Str("host")>> >>
      baseName == OrElse(JSString(pop(split(a.key, "/"))), JSString(Str("download"))).s
  IN  [l EXCEPT !.qp =
         IF a.method = Str("GET")
           THEN Append(qp, <<Str("response-content-disposition"),
                             Str("attachment; filename=\"") \o baseName \o Str("\"")>>)
           ELSE qp]

\* line 81-84
api_presignUrl_canonicalQueryString(l) ==
  LET names == sort(ObjectKeys(l.qp))
  IN  [l EXCEPT !.canonicalQueryString =
         join([i \in 1..Len(names) |->
                 api_encodeQueryRfc3986(names[i]) \o Str("=")
                   \o api_encodeQueryRfc3986(Get(l.qp, names[i]))],
              Str("&"))]

\* line 85-95
api_presignUrl_canonicalRequest(l) ==
  [l EXCEPT !.canonicalRequest =
     join(<<l.method, l.canonicalUri, l.canonicalQueryString, Str("host:") \o l.host \o Str("\n"),
            Str("host"), Str("UNSIGNED-PAYLOAD")>>, Str("\n"))]

\* line 97-103: sha256Hex(canonicalRequest) and stringToSign
api_sha256Hex(s) ==
  LET q == Sha256Query(Utf8(s.loc.canonicalRequest))
      hashedCanonicalRequest == digestHex(Digest(s.oracle, q))
  IN  [loc |-> [s.loc EXCEPT !.hashedCanonicalRequest = hashedCanonicalRequest,
                  !.stringToSign =
                     join(<<Str("AWS4-HMAC-SHA256"), s.loc.amzDate, s.loc.credentialScope,
                            hashedCanonicalRequest>>, Str("\n"))],
       oracle |-> AskOracle(s.oracle, q)]

\* getSignatureKey, line 135-141
api_kDate(s) ==
  LET q == HmacQuery(Utf8(Str("AWS4") \o s.loc.secretKey), Utf8(s.loc.datestamp))
  IN  [loc |-> [s.loc EXCEPT !.kDate = Digest(s.oracle, q)], oracle |-> AskOracle(s.oracle, q)]

api_kRegion(s) ==
  LET q == HmacQuery(s.loc.kDate, Utf8(s.loc.region))
  IN  [loc |-> [s.loc EXCEPT !.kRegion = Digest(s.oracle, q)], oracle |-> AskOracle(s.oracle, q)]

api_kService(s) ==
  LET q == HmacQuery(s.loc.kRegion, Utf8(Str("s3")))
  IN  [loc |-> [s.loc EXCEPT !.kService = Digest(s.oracle, q)], oracle |-> AskOracle(s.oracle, q)]

api_kSigning(s) ==
  LET q == HmacQuery(s.loc.kService, Utf8(Str("aws4_request")))
  IN  [loc |-> [s.loc EXCEPT !.signingKey = Digest(s.oracle, q)], oracle |-> AskOracle(s.oracle, q)]

api_getSignatureKey(s) == api_kSigning(api_kService(api_kRegion(api_kDate(s))))

\* line 106-109: signature = hmacHex(signingKey, stringToSign) and the URL
api_signature(s) ==
  LET q == HmacQuery(s.loc.signingKey, Utf8(s.loc.stringToSign))
      signature == digestHex(Digest(s.oracle, q))
  IN  [loc |-> [s.loc EXCEPT !.signature = signature,
                  !.presignedUrl =
                     Str("https://") \o s.loc.host \o s.loc.canonicalUri \o Str("?")
                       \o s.loc.canonicalQueryString \o Str("&X-Amz-Signature=") \o signature],
       oracle |-> AskOracle(s.oracle, q)]

\* presignUrl: the locals at its return and the oracle after its six digests.
api_presignUrl(a, now, tbl) ==
  api_signature(api_getSignatureKey(api_sha256Hex(
    [loc |-> api_presignUrl_canonicalRequest(api_presignUrl_canonicalQueryString(
               api_presignUrl_qp(a, api_presignUrl_credentialScope(api_presignUrl_host(a, now))))),
     oracle |-> tbl])))

(***************************************************************************)
(* Requests, configurations and errors.                                    *)
(***************************************************************************)
RECURSIVE StringsUpTo(_, _)
StringsUpTo(chars, n) ==
  IF n = 0 THEN {<<>>}
  ELSE LET shorter == StringsUpTo(chars, n - 1)
       IN  shorter \cup {Append(s, c) : s \in shorter, c \in chars}

KeyChars == {"a", "/", LoneSurrogate}
Keys == {Undefined} \cup {JSString(k) : k \in StringsUpTo(KeyChars, MaxKeyLen)}
Methods == {Undefined} \cup {JSString(Str(m)) : m \in {"GET", "PUT", "DELETE", "POST"}}
ExpiresValues ==
  {Undefined, JSNumber(0), JSNumber(-50), JSNumber(15), JSNumber(36000),
   JSString(Str("abc")), JSString(Str("60"))}

\* The body of a POST: nothing, text that is not JSON, JSON null, or a JSON
\* object whose members may be absent.
\* Every key with every method, and every method with every expires value.
Bodies ==
  {[kind |-> "empty"], [kind |-> "malformed"], [kind |-> "null"]}
    \cup {[kind |-> "object", key |-> k, method |-> m, expires |-> Undefined] :
            k \in Keys, m \in Methods}
    \cup {[kind |-> "object", key |-> JSString(Str("a")), method |-> m, expires |-> e] :
            m \in Methods, e \in ExpiresValues}

SignRequests ==
  {[impl |-> i, httpMethod |-> "POST", path |-> "/sign", body |-> b] :
     i \in {"worker", "vercel"}, b \in Bodies}

OtherRequests ==
  {[impl |-> i, httpMethod |-> h, path |-> p, body |-> [kind |-> "empty"]] :
     i \in {"worker", "vercel"}, h \in {"OPTIONS", "GET"}, p \in {"/health", "/sign"}}

Requests == SignRequests \cup OtherRequests

Credentials == {"R2_ACCOUNT_ID", "R2_BUCKET_NAME", "R2_ACCESS_KEY_ID", "R2_SECRET_ACCESS_KEY"}

FullEnv ==
  [R2_ACCOUNT_ID |-> JSString(Str("acct1234")),
   R2_BUCKET_NAME |-> JSString(Str("files")),
   R2_ACCESS_KEY_ID |-> JSString(Str("AKID")),
   R2_SECRET_ACCESS_KEY |-> JSString(Str("s3cr3tK")),
   R2_REGION |-> Undefined]

\* FullEnv with the credentials in missing replaced by absent.
EnvWithout(missing, absent) ==
  [v \in DOMAIN FullEnv |-> IF v \in missing THEN absent ELSE FullEnv[v]]

Envs ==
  {FullEnv, [FullEnv EXCEPT !.R2_REGION = JSString(Str("weur"))]}
    \cup {EnvWithout({c}, Undefined) : c \in Credentials}
    \cup {EnvWithout({"R2_SECRET_ACCESS_KEY"}, JSString(<<>>)),
          EnvWithout({"R2_BUCKET_NAME", "R2_ACCESS_KEY_ID"}, Undefined)}

Error(name, message) == [name |-> name, message |-> message]

\* What the platform throws.
JsonSyntaxError == Error("SyntaxError", Str("Unexpected end of JSON input"))
DestructureNull == Error("TypeError", Str("Cannot destructure property 'key' of null"))
URIError == Error("URIError", Str("URI malformed"))
CryptoErrors ==
  {Error("OperationError", <<>>), Error("NotSupportedError", Str("Unrecognized algorithm name"))}

(***************************************************************************)
(* One invocation of a handler.  pc is the await at which it is suspended. *)
(*   sent    the responses it has returned                                 *)
(*   thrown  the exceptions that reached its catch block                   *)
(*   now     the clock reading of presignUrl's `new Date()` (-1: none)     *)
(*   loc     the locals of presignUrl                                      *)
(*   ops     how many hash/HMAC primitives it has run                      *)
(***************************************************************************)
NoRequest == [impl |-> "", httpMethod |-> "", path |-> "", body |-> [kind |-> "empty"]]

IdleCall ==
  [pc |-> "idle", req |-> NoRequest, now |-> -1, loc |-> NoLocals, ops |-> 0,
   sent |-> <<>>, thrown |-> <<>>]

AwaitingCrypto == {"sha256Hex", "kDate", "kRegion", "kService", "kSigning", "signature"}

\* worker.js json(data, status) / res.status(status).json(data)
json(c, data, status) ==
  [c EXCEPT !.pc = "done", !.sent = Append(@, [status |-> status, data |-> data])]

\* The catch block: worker.js line 68-72, api/r2-sign.js line 50-53.
catch(c, err) ==
  json([c EXCEPT !.thrown = Append(@, err)],
       [error |-> OrElse(JSString(err.message), JSString(Str("Failed to sign")))], 500)

consoleError(lg, tag, err) == Append(lg, [tag |-> tag, err |-> err])

\* const { key, method = 'PUT', expires = 300 } = body
Destructure(body) ==
  [key |-> body.key,
   method |-> Default(body.method, JSString(Str("PUT"))),
   expires |-> Default(body.expires, JSNumber(3000))]

\* !key || !['GET', 'PUT', 'DELETE'].includes(method)
InvalidRequest(d) ==
  \/ ~ToBoolean(d.key)
  \/ d.method \notin {JSString(Str("GET")), JSString(Str("PUT")), JSString(Str("DELETE"))}

\* Mutant of Missing: an absent account id is reported under the bucket's name.
Missing_wrongName(e) ==
  (IF ~ToBoolean(e.R2_ACCOUNT_ID) THEN <<Str("R2_BUCKET_NAME")>> ELSE <<>>)
    \o (IF ~ToBoolean(e.R2_BUCKET_NAME) THEN <<Str("R2_BUCKET_NAME")>> ELSE <<>>)
    \o (IF ~ToBoolean(e.R2_ACCESS_KEY_ID) THEN <<Str("R2_ACCESS_KEY_ID")>> ELSE <<>>)
    \o (IF ~ToBoolean(e.R2_SECRET_ACCESS_KEY) THEN <<Str("R2_SECRET_ACCESS_KEY")>> ELSE <<>>)

\* Mutant of Missing: the list stops at the first absent credential.
Missing_firstOnly(e) ==
  IF ~ToBoolean(e.R2_ACCOUNT_ID) THEN <<Str("R2_ACCOUNT_ID")>>
  ELSE IF ~ToBoolean(e.R2_BUCKET_NAME) THEN <<Str("R2_BUCKET_NAME")>>
  ELSE IF ~ToBoolean(e.R2_ACCESS_KEY_ID) THEN <<Str("R2_ACCESS_KEY_ID")>>
  ELSE IF ~ToBoolean(e.R2_SECRET_ACCESS_KEY) THEN <<Str("R2_SECRET_ACCESS_KEY")>>
  ELSE <<>>

\* The list `missing`, in the order of the four tests.
Missing(e) ==
  (IF ~ToBoolean(e.R2_ACCOUNT_ID) THEN <<Str("R2_ACCOUNT_ID")>> ELSE <<>>)
    \o (IF ~ToBoolean(e.R2_BUCKET_NAME) THEN <<Str("R2_BUCKET_NAME")>> ELSE <<>>)
    \o (IF ~ToBoolean(e.R2_ACCESS_KEY_ID) THEN <<Str("R2_ACCESS_KEY_ID")>> ELSE <<>>)
    \o (IF ~ToBoolean(e.R2_SECRET_ACCESS_KEY) THEN <<Str("R2_SECRET_ACCESS_KEY")>> ELSE <<>>)

MissingMessage(missing) == Str("Missing R2 configuration: ") \o join(missing, Str(", "))

\* Mutant of PresignArgs: the secret is passed where the access key id belongs.
PresignArgs_secretAsAccessKeyId(d, e) ==
  [method |-> d.method.s,
   accountId |-> e.R2_ACCOUNT_ID.s,
   bucket |-> e.R2_BUCKET_NAME.s,
   key |-> String(d.key),
   region |-> OrElse(e.R2_REGION, JSString(Str("auto"))).s,
   accessKeyId |-> e.R2_SECRET_ACCESS_KEY.s,
   secretKey |-> e.R2_SECRET_ACCESS_KEY.s,
   expires |-> OrElse(Number(d.expires), JSNumber(3000))]

\* Mutant of PresignArgs: the region defaults to us-east-1.
PresignArgs_regionUsEast1(d, e) ==
  [method |-> d.method.s,
   accountId |-> e.R2_ACCOUNT_ID.s,
   bucket |-> e.R2_BUCKET_NAME.s,
   key |-> String(d.key),
   region |-> OrElse(e.R2_REGION, JSString(Str("us-east-1"))).s,
   accessKeyId |-> e.R2_ACCESS_KEY_ID.s,
   secretKey |-> e.R2_SECRET_ACCESS_KEY.s,
   expires |-> OrElse(Number(d.expires), JSNumber(3000))]

\* The argument object of presignUrl.
PresignArgs(d, e) ==
  [method |-> d.method.s,
   accountId |-> e.R2_ACCOUNT_ID.s,
   bucket |-> e.R2_BUCKET_NAME.s,
   key |-> String(d.key),
   region |-> OrElse(e.R2_REGION, JSString(Str("auto"))).s,
   accessKeyId |-> e.R2_ACCESS_KEY_ID.s,
   secretKey |-> e.R2_SECRET_ACCESS_KEY.s,
   expires |-> OrElse(Number(d.expires), JSNumber(3000))]

Ellipsis == "U+2026"

(***************************************************************************)
(* The client helper getSignedUrl (lib/r2).  The invocation is             *)
(*   signerUrl   import.meta.env.VITE_R2_SIGNER_URL                        *)
(*   pc          the await at which it is suspended                        *)
(*   resp        the variable resp                                         *)
(*   contacted   the requests it has sent, in order                        *)
(*   answers     what each request came back with                          *)
(*   settled     how the promise settled: its value or its error           *)
(***************************************************************************)
Rejected == [status |-> -1, body |-> [kind |-> "none"]]
NoResponse == [status |-> 0, body |-> [kind |-> "none"]]

\* What a signer endpoint can answer: a body that is not JSON, or a JSON
\* object with a url, with an empty url, with an error, or with neither.
ResponseBodies ==
  {[kind |-> "text"],
   [kind |-> "json", url |-> JSString(Str("https://r2/k?sig")), error |-> Undefined],
   [kind |-> "json", url |-> JSString(<<>>), error |-> Undefined],
   [kind |-> "json", url |-> Undefined, error |-> JSString(Str("Invalid request"))],
   [kind |-> "json", url |-> Undefined, error |-> Undefined]}

Responses == {[status |-> st, body |-> b] : st \in {200, 400, 500}, b \in ResponseBodies}

\* Response.ok
ResponseOk(resp) == resp.status >= 200 /\ resp.status <= 299

SignerUrls == {Undefined, JSString(Str("https://w.dev")), JSString(Str("https://w.dev/"))}

IdleClient(signerUrl) ==
  [signerUrl |-> signerUrl, pc |-> "idle", resp |-> NoResponse,
   contacted |-> <<>>, answers |-> <<>>, settled |-> [kind |-> "pending"]]

\* part_001 line 4-8
getSignerEndpoint(signerUrl) ==
  LET external == OrElse(signerUrl, JSString(<<>>)).s
  IN  [localApi |-> Str("/api/r2-sign"),
       external |-> IF Len(external) > 0 /\ external[Len(external)] = "/"
                      THEN SubSeq(external, 1, Len(external) - 1)
                      ELSE external]

\* JSON.stringify({ key, method, expires }) sent to url
SignRequest(url, key, method, expires) ==
  [url |-> url, method |-> "POST", key |-> key, signFor |-> method, expires |-> expires]

Throws(cl, err) == [cl EXCEPT !.pc = "settled", !.settled = [kind |-> "rejected", err |-> err]]
Returns(cl, value) == [cl EXCEPT !.pc = "settled", !.settled = [kind |-> "fulfilled", value |-> value]]

\* line 16-24: getSignedUrl is called and sends the same-origin request.
getSignedUrl(key, method) ==
  /\ client.pc = "idle"
  /\ client' = [client EXCEPT !.pc = "fetch(localApi)",
                  !.contacted = <<SignRequest(getSignerEndpoint(client.signerUrl).localApi,
                                              key, method, 300)>>]
  /\ UNCHANGED <<env, clock, oracle, calls, log, bucket, rows, panels>>

\* line 20-32: the same-origin fetch settles.  A rejection leaves
\* getSignedUrl; a response that is not OK sends the request to the external
\* signer when one is configured.
await_fetch_localApi(outcome) ==
  /\ client.pc = "fetch(localApi)"
  /\ LET cl == [client EXCEPT !.answers = Append(@, outcome)]
         external == getSignerEndpoint(client.signerUrl).external
     IN  client' =
           IF outcome = Rejected THEN Throws(cl, Error("TypeError", Str("Failed to fetch")))
           ELSE IF ~ResponseOk(outcome) /\ Len(external) > 0
             THEN [cl EXCEPT !.resp = outcome, !.pc = "fetch(external)",
                     !.contacted = Append(@, [client.contacted[1] EXCEPT
                                                !.url = external \o Str("/sign")])]
           ELSE [cl EXCEPT !.resp = outcome, !.pc = "resp.json()"]
  /\ UNCHANGED <<env, clock, oracle, calls, log, bucket, rows, panels>>

\* line 27-33: the external fetch settles; its rejection is swallowed and
\* resp stays the same-origin response.
await_fetch_external(outcome) ==
  /\ client.pc = "fetch(external)"
  /\ client' = [client EXCEPT !.answers = Append(@, outcome), !.pc = "resp.json()",
                  !.resp = IF outcome = Rejected THEN @ ELSE outcome]
  /\ UNCHANGED <<env, clock, oracle, calls, log, bucket, rows, panels>>

\* line 36-48: resp.json() settles, in the failure branch or the success
\* branch.
await_resp_json ==
  /\ client.pc = "resp.json()"
  /\ LET resp == client.resp
         detail == IF resp.body.kind = "json" /\ ToBoolean(resp.body.error)
                     THEN Str(": ") \o resp.body.error.s ELSE <<>>
     IN  client' =
           IF ~ResponseOk(resp)
             THEN Throws(client, Error("Error", Str("Failed to get signed URL (status ")
                                   \o NatToString(resp.status) \o Str(")") \o detail))
           ELSE IF resp.body.kind # "json"
             THEN Throws(client, JsonSyntaxError)
           ELSE IF ~ToBoolean(resp.body.url)
             THEN Throws(client, Error("Error", Str("Signer did not return a URL")))
           ELSE Returns(client, resp.body.url)
  /\ UNCHANGED <<env, clock, oracle, calls, log, bucket, rows, panels>>

(***************************************************************************)
(* SpecClient: one call of getSignedUrl, with or without an external       *)
(* signer configured; each endpoint answers anything or not at all.        *)
(***************************************************************************)
InitClient ==
  /\ env = FullEnv
  /\ clock = 0
  /\ oracle = <<>>
  /\ calls = <<>>
  /\ log = <<>>
  /\ bucket = {} /\ rows = <<>> /\ panels = <<>>
  /\ \E signerUrl \in SignerUrls : client = IdleClient(signerUrl)

NextClient ==
  \/ \E key \in {Str("a"), Str("a/b")}, method \in {Str("GET"), Str("PUT"), Str("DELETE")} :
       getSignedUrl(key, method)
  \/ \E outcome \in {Rejected} \cup Responses : await_fetch_localApi(outcome)
  \/ \E outcome \in {Rejected} \cup Responses : await_fetch_external(outcome)
  \/ await_resp_json

SpecClient == InitClient /\ [][NextClient]_vars

(***************************************************************************)
(* The Cloudflare Worker: fetch, worker.js line 15-76.                     *)
(***************************************************************************)
\* A request arrives; fetch runs up to its first await.
fetch(i, req) ==
  /\ calls[i].pc = "idle"
  /\ req.impl = "worker"
  /\ LET c == [calls[i] EXCEPT !.req = req]
     IN  calls' = [calls EXCEPT ![i] =
           IF req.httpMethod = "OPTIONS"
             THEN [c EXCEPT !.pc = "done", !.sent = Append(@, [status |-> 204, data |-> Null])]
           ELSE IF req.path = "/health" /\ req.httpMethod = "GET"
             THEN json(c,
                    [ok |-> JSTrue,
                     now |-> JSString(toISOString(clock)),
                     amzDate |-> JSString(toAmzDate(clock)),
                     accountId |-> IF ToBoolean(env.R2_ACCOUNT_ID)
                                     THEN JSString(slice0(String(env.R2_ACCOUNT_ID), 6) \o <<Ellipsis>>)
                                     ELSE Null,
                     bucket |-> OrElse(env.R2_BUCKET_NAME, Null),
                     region |-> OrElse(env.R2_REGION, JSString(Str("auto")))],
                    200)
           ELSE IF req.path = "/sign" /\ req.httpMethod = "POST"
             THEN [c EXCEPT !.pc = "request.json"]
           ELSE json(c, [ok |-> JSTrue], 200)]
  /\ UNCHANGED <<env, clock, oracle, log, bucket, rows, panels, client>>

\* `await request.json()` settles; the handler runs on to the first await of
\* presignUrl (line 36-147) or returns.
await_request_json(i) ==
  /\ calls[i].pc = "request.json"
  /\ LET c == calls[i]
         body == c.req.body
         Throw(err) ==
           /\ calls' = [calls EXCEPT ![i] = catch(c, err)]
           /\ log' = consoleError(log, "[r2-signer] Failed to sign URL", err)
     IN  IF body.kind \in {"empty", "malformed"} THEN Throw(JsonSyntaxError)
         ELSE IF body.kind = "null" THEN Throw(DestructureNull)
         ELSE LET d == Destructure(body)
                  missing == Missing(env)
              IN  IF InvalidRequest(d)
                    THEN /\ calls' = [calls EXCEPT ![i] =
                                        json(c, [error |-> JSString(Str("Invalid request"))], 400)]
                         /\ log' = log
                  ELSE IF Len(missing) # 0
                    THEN /\ calls' = [calls EXCEPT ![i] =
                                        json(c, [error |-> JSString(MissingMessage(missing))], 500)]
                         /\ log' = log
                  ELSE IF URIMalformed(String(d.key))
                    THEN Throw(URIError)
                  ELSE /\ calls' = [calls EXCEPT ![i] =
                                      [c EXCEPT !.pc = "sha256Hex", !.now = clock,
                                                !.loc = presignUrl_sync(PresignArgs(d, env), clock)]]
                       /\ log' = log
  /\ UNCHANGED <<env, clock, oracle, bucket, rows, panels, client>>

\* One hash/HMAC primitive of call i settles: query is what the primitive
\* was asked, newLoc the locals once its digest is assigned, and the call
\* moves from await position at to next.
CryptoStep(i, at, query, next, newLoc) ==
  /\ calls[i].pc = at
  /\ oracle' = AskOracle(oracle, query)
  /\ calls' = [calls EXCEPT ![i] = [@ EXCEPT !.pc = next, !.ops = @ + 1, !.loc = newLoc]]
  /\ UNCHANGED <<env, clock, log, bucket, rows, panels, client>>

\* Mutant of await_sha256Hex: the canonical request is read from a variable
\* the invocations share (the locals of the first one).
await_sha256Hex_sharedLocals(i) ==
  LET l == calls[i].loc
      shared == calls[1].loc
      h == toHex(Digest(oracle, Q_sha256Hex(shared)))
  IN  CryptoStep(i, "sha256Hex", Q_sha256Hex(shared), "kDate",
        [l EXCEPT !.hashedCanonicalRequest = h, !.stringToSign = stringToSignOf(l, h)])

\* line 147-153: hashedCanonicalRequest = await sha256Hex(canonicalRequest)
await_sha256Hex(i) ==
  LET l == calls[i].loc
      h == toHex(Digest(oracle, Q_sha256Hex(l)))
  IN  CryptoStep(i, "sha256Hex", Q_sha256Hex(l), "kDate",
        [l EXCEPT !.hashedCanonicalRequest = h, !.stringToSign = stringToSignOf(l, h)])

\* line 206: kDate = await hmac(`AWS4${key}`, dateStamp)
await_kDate(i) ==
  LET l == calls[i].loc
  IN  CryptoStep(i, "kDate", Q_kDate(l), "kRegion",
        [l EXCEPT !.kDate = Digest(oracle, Q_kDate(l))])

\* line 207: kRegion = await hmacBuf(kDate, regionName)
await_kRegion(i) ==
  LET l == calls[i].loc
  IN  CryptoStep(i, "kRegion", Q_kRegion(l), "kService",
        [l EXCEPT !.kRegion = Digest(oracle, Q_kRegion(l))])

\* line 208: kService = await hmacBuf(kRegion, serviceName)
await_kService(i) ==
  LET l == calls[i].loc
  IN  CryptoStep(i, "kService", Q_kService(l), "kSigning",
        [l EXCEPT !.kService = Digest(oracle, Q_kService(l))])

\* line 209: kSigning = await hmacBuf(kService, 'aws4_request')
await_kSigning(i) ==
  LET l == calls[i].loc
  IN  CryptoStep(i, "kSigning", Q_kSigning(l), "signature",
        [l EXCEPT !.signingKey = Digest(oracle, Q_kSigning(l))])

\* line 156-159 and 67: signature = await hmacHexBuf(signingKey, stringToSign);
\* the URL is assembled and returned with status 200.
await_signature(i) ==
  /\ calls[i].pc = "signature"
  /\ LET c == calls[i]
         l == c.loc
         signature == toHex(Digest(oracle, Q_signature(l)))
         presignedUrl == presignedUrlOf(l, signature)
     IN  /\ oracle' = AskOracle(oracle, Q_signature(l))
         /\ calls' = [calls EXCEPT ![i] =
               json([c EXCEPT !.ops = @ + 1,
                              !.loc = [l EXCEPT !.signature = signature, !.presignedUrl = presignedUrl]],
                    [url |-> JSString(presignedUrl)], 200)]
  /\ UNCHANGED <<env, clock, log, bucket, rows, panels, client>>

\* The awaited hash/HMAC promise rejects: control passes to the catch block.
await_rejects(i, err) ==
  /\ calls[i].pc \in AwaitingCrypto
  /\ calls' = [calls EXCEPT ![i] = catch(calls[i], err)]
  /\ log' = consoleError(log, "[r2-signer] Failed to sign URL", err)
  /\ UNCHANGED <<env, clock, oracle, bucket, rows, panels, client>>

(***************************************************************************)
(* The Vercel function: handler, api/r2-sign.js line 11-54.  Its crypto is *)
(* synchronous, so one request is one step.  outcome is what node:crypto   *)
(* does: NoError, or the error its first primitive throws.                 *)
(***************************************************************************)
NoError == Error("", <<>>)

EmptyObject == [kind |-> "object", key |-> Undefined, method |-> Undefined, expires |-> Undefined]

handler(i, req, outcome) ==
  /\ calls[i].pc = "idle"
  /\ req.impl = "vercel"
  /\ LET c == [calls[i] EXCEPT !.req = req]
         Throw(cc, err) ==
           /\ calls' = [calls EXCEPT ![i] = catch(cc, err)]
           /\ log' = consoleError(log, "[api/r2-sign] Failed to sign URL", err)
           /\ oracle' = oracle
         Return(cc) ==
           /\ calls' = [calls EXCEPT ![i] = cc]
           /\ log' = log
           /\ oracle' = oracle
     IN  IF req.httpMethod = "OPTIONS"
           THEN Return([c EXCEPT !.pc = "done", !.sent = Append(@, [status |-> 204, data |-> Null])])
         ELSE IF req.httpMethod # "POST"
           THEN Return(json(c, [error |-> JSString(Str("Method not allowed"))], 405))
         ELSE IF req.body.kind = "malformed"
           THEN Throw(c, JsonSyntaxError)
         ELSE LET body == IF req.body.kind = "object" THEN req.body ELSE EmptyObject
                  d == Destructure(body)
                  missing == Missing(env)
              IN  IF InvalidRequest(d)
                    THEN Return(json(c, [error |-> JSString(Str("Invalid request"))], 400))
                  ELSE IF Len(missing) # 0
                    THEN Return(json(c, [error |-> JSString(MissingMessage(missing))], 500))
                  ELSE IF URIMalformed(String(d.key))
                    THEN Throw([c EXCEPT !.loc = [NoLocals EXCEPT !.entered = TRUE]], URIError)
                  ELSE IF outcome # NoError
                    THEN Throw([c EXCEPT !.now = clock, !.loc = [NoLocals EXCEPT !.entered = TRUE]],
                               outcome)
                  ELSE LET r == api_presignUrl(PresignArgs(d, env), clock, oracle)
                       IN  /\ calls' = [calls EXCEPT ![i] =
                                 json([c EXCEPT !.now = clock, !.loc = r.loc, !.ops = 6],
                                      [url |-> JSString(r.loc.presignedUrl)], 200)]
                           /\ oracle' = r.oracle
                           /\ log' = log
  /\ UNCHANGED <<env, clock, bucket, rows, panels, client>>

(***************************************************************************)
(* The wall clock advances.                                                *)
(***************************************************************************)
Tick ==
  /\ clock < MaxTicks * TickMs
  /\ \E i \in DOMAIN calls : calls[i].pc # "done"
  /\ clock' = clock + TickMs
  /\ UNCHANGED <<env, oracle, calls, log, bucket, rows, panels, client>>

(***************************************************************************)
(* Spec: one server configuration, one request.                            *)
(***************************************************************************)
Init ==
  /\ env \in Envs
  /\ clock = 0
  /\ oracle = <<>>
  /\ calls = <<IdleCall>>
  /\ log = <<>>
  /\ bucket = {} /\ rows = <<>> /\ panels = <<>>
  /\ client = IdleClient(Undefined)

Next ==
  \/ \E i \in DOMAIN calls : calls[i].pc = "idle" /\ \E req \in Requests : fetch(i, req)
  \/ \E i \in DOMAIN calls : await_request_json(i)
  \/ \E i \in DOMAIN calls : await_sha256Hex(i)
  \/ \E i \in DOMAIN calls : await_kDate(i)
  \/ \E i \in DOMAIN calls : await_kRegion(i)
  \/ \E i \in DOMAIN calls : await_kService(i)
  \/ \E i \in DOMAIN calls : await_kSigning(i)
  \/ \E i \in DOMAIN calls : await_signature(i)
  \/ \E i \in DOMAIN calls, err \in CryptoErrors : await_rejects(i, err)
  \/ \E i \in DOMAIN calls :
       /\ calls[i].pc = "idle"
       /\ \E req \in Requests, outcome \in {NoError} \cup CryptoErrors : handler(i, req, outcome)
  \/ Tick

Spec == Init /\ [][Next]_vars

(***************************************************************************)
(* SpecResign: a client signs a request and then signs the identical       *)
(* request again, on either deployment, while the clock may advance; the   *)
(* hash and HMAC primitives do not fail.                                   *)
(***************************************************************************)
ResignBodies ==
  {b \in Bodies : b.kind = "object" /\ (b.key = JSString(Str("a")) \/ b.method = JSString(Str("GET")))}

ResignRequests ==
  {[impl |-> i, httpMethod |-> "POST", path |-> "/sign", body |-> b] :
     i \in {"worker", "vercel"}, b \in ResignBodies}

InitResign ==
  /\ env = FullEnv
  /\ clock = 0
  /\ oracle = <<>>
  /\ calls = <<IdleCall, IdleCall>>
  /\ log = <<>>
  /\ bucket = {} /\ rows = <<>> /\ panels = <<>>
  /\ client = IdleClient(Undefined)

\* The request of call 1 again, sent to impl.
Again(impl) == [calls[1].req EXCEPT !.impl = impl]

NextResign ==
  \/ calls[1].pc = "idle" /\ \E req \in ResignRequests : fetch(1, req)
  \/ calls[1].pc = "idle" /\ \E req \in ResignRequests : handler(1, req, NoError)
  \/ calls[1].pc = "done" /\ fetch(2, Again("worker"))
  \/ calls[1].pc = "done" /\ handler(2, Again("vercel"), NoError)
  \/ \E i \in DOMAIN calls : await_request_json(i)
  \/ \E i \in DOMAIN calls : await_sha256Hex(i)
  \/ \E i \in DOMAIN calls : await_kDate(i)
  \/ \E i \in DOMAIN calls : await_kRegion(i)
  \/ \E i \in DOMAIN calls : await_kService(i)
  \/ \E i \in DOMAIN calls : await_kSigning(i)
  \/ \E i \in DOMAIN calls : await_signature(i)
  \/ Tick

SpecResign == InitResign /\ [][NextResign]_vars

(***************************************************************************)
(* SpecEncode: one complete configuration, one request whose key ranges    *)
(* over every string of the characters the two encoders treat differently: *)
(* unreserved ones, the slash, the space, the five characters              *)
(* encodeURIComponent leaves raw and the code escapes afterwards, the      *)
(* percent sign and a non-ASCII character.                                 *)
(***************************************************************************)
EncodeChars == {"a", "~", "/", " ", "!", "'", "(", ")", "*", "%", EAcute}

\* Every short string of them, and two keys that hold the text of an escape.
EncodeKeys ==
  (StringsUpTo(EncodeChars, MaxEncodeLen) \ {<<>>}) \cup {Str("%2F"), Str("a%2Fb/c")}

EncodeBodies ==
  {[kind |-> "object", key |-> JSString(k), method |-> JSString(Str("PUT")), expires |-> Undefined] :
     k \in EncodeKeys}

EncodeRequests ==
  {[impl |-> i, httpMethod |-> "POST", path |-> "/sign", body |-> b] :
     i \in {"worker", "vercel"}, b \in EncodeBodies}

InitEncode ==
  /\ env = FullEnv
  /\ clock = 0
  /\ oracle = <<>>
  /\ calls = <<IdleCall>>
  /\ log = <<>>
  /\ bucket = {} /\ rows = <<>> /\ panels = <<>>
  /\ client = IdleClient(Undefined)

NextEncode ==
  \/ calls[1].pc = "idle" /\ \E req \in EncodeRequests : fetch(1, req)
  \/ calls[1].pc = "idle" /\ \E req \in EncodeRequests : handler(1, req, NoError)
  \/ await_request_json(1)
  \/ await_sha256Hex(1)
  \/ await_kDate(1)
  \/ await_kRegion(1)
  \/ await_kService(1)
  \/ await_kSigning(1)
  \/ await_signature(1)

SpecEncode == InitEncode /\ [][NextEncode]_vars

(***************************************************************************)
(* SpecConcurrent: two requests are in flight at once on one configured    *)
(* Worker.  Each invocation is suspended at its awaits, where the other    *)
(* may run; the clock may advance at any point.                            *)
(***************************************************************************)
\* The first client uploads; the second uploads the same object or
\* downloads another one.
ConcurrentBodies(i) ==
  {[kind |-> "object", key |-> JSString(Str("a")), method |-> JSString(Str("PUT")),
    expires |-> Undefined]}
    \cup (IF i = 1 THEN {}
          ELSE {[kind |-> "object", key |-> JSString(Str("/a")), method |-> JSString(Str("GET")),
                 expires |-> JSNumber(36000)]})

ConcurrentRequests(i) ==
  {[impl |-> "worker", httpMethod |-> "POST", path |-> "/sign", body |-> b] :
     b \in ConcurrentBodies(i)}

InitConcurrent ==
  /\ env = FullEnv
  /\ clock = 0
  /\ oracle = <<>>
  /\ calls = <<IdleCall, IdleCall>>
  /\ log = <<>>
  /\ bucket = {} /\ rows = <<>> /\ panels = <<>>
  /\ client = IdleClient(Undefined)

\* The clock advances once while the two are in flight.
TickConcurrent ==
  /\ clock < TickMs
  /\ Tick

NextConcurrent ==
  \/ \E i \in DOMAIN calls : calls[i].pc = "idle" /\ \E req \in ConcurrentRequests(i) : fetch(i, req)
  \/ \E i \in DOMAIN calls : await_request_json(i)
  \/ \E i \in DOMAIN calls : await_sha256Hex(i)
  \/ \E i \in DOMAIN calls : await_kDate(i)
  \/ \E i \in DOMAIN calls : await_kRegion(i)
  \/ \E i \in DOMAIN calls : await_kService(i)
  \/ \E i \in DOMAIN calls : await_kSigning(i)
  \/ \E i \in DOMAIN calls : await_signature(i)
  \/ TickConcurrent

SpecConcurrent == InitConcurrent /\ [][NextConcurrent]_vars

(***************************************************************************)
(* SpecConfig: every way of leaving credentials out of the configuration   *)
(* (each subset of the four, unset or set to the empty string), and one    *)
(* valid request.                                                          *)
(***************************************************************************)
ConfigEnvs ==
  {EnvWithout(missing, absent) :
     missing \in SUBSET Credentials, absent \in {Undefined, JSString(<<>>)}}

ConfigRequests ==
  {[impl |-> i, httpMethod |-> "POST", path |-> "/sign",
    body |-> [kind |-> "object", key |-> JSString(Str("a")), method |-> md, expires |-> Undefined]] :
     i \in {"worker", "vercel"}, md \in {Undefined, JSString(Str("DELETE"))}}

InitConfig ==
  /\ env \in ConfigEnvs
  /\ clock = 0
  /\ oracle = <<>>
  /\ calls = <<IdleCall>>
  /\ log = <<>>
  /\ bucket = {} /\ rows = <<>> /\ panels = <<>>
  /\ client = IdleClient(Undefined)

NextConfig ==
  \/ calls[1].pc = "idle" /\ \E req \in ConfigRequests : fetch(1, req)
  \/ calls[1].pc = "idle" /\ \E req \in ConfigRequests : handler(1, req, NoError)
  \/ await_request_json(1)
  \/ await_sha256Hex(1)
  \/ await_kDate(1)
  \/ await_kRegion(1)
  \/ await_kService(1)
  \/ await_kSigning(1)
  \/ await_signature(1)

SpecConfig == InitConfig /\ [][NextConfig]_vars

(***************************************************************************)
(* SpecBoth: the same request is sent to both deployments, configured      *)
(* alike: call 1 is the Worker's, call 2 the Vercel function's.  The clock *)
(* may advance once; the hash and HMAC primitives do not fail.             *)
(***************************************************************************)
BothEnvs ==
  {FullEnv, [FullEnv EXCEPT !.R2_REGION = JSString(Str("weur"))],
   EnvWithout({"R2_ACCOUNT_ID"}, Undefined),
   EnvWithout({"R2_BUCKET_NAME", "R2_SECRET_ACCESS_KEY"}, JSString(<<>>))}

BothBodies ==
  {[kind |-> "empty"], [kind |-> "malformed"], [kind |-> "null"]}
    \cup {[kind |-> "object", key |-> k, method |-> md, expires |-> Undefined] :
            k \in {Undefined, JSString(<<>>), JSString(Str("a")), JSString(Str("a/ ")),
                   JSString(<<LoneSurrogate>>)},
            md \in Methods}
    \cup {[kind |-> "object", key |-> JSString(Str("a")), method |-> JSString(Str("GET")),
           expires |-> e] : e \in ExpiresValues}

BothRequests ==
  {[impl |-> "worker", httpMethod |-> "POST", path |-> "/sign", body |-> b] : b \in BothBodies}

InitBoth ==
  /\ env \in BothEnvs
  /\ clock = 0
  /\ oracle = <<>>
  /\ calls = <<IdleCall, IdleCall>>
  /\ log = <<>>
  /\ bucket = {} /\ rows = <<>> /\ panels = <<>>
  /\ client = IdleClient(Undefined)

NextBoth ==
  \/ \E req \in BothRequests : fetch(1, req)
  \/ calls[1].pc # "idle" /\ handler(2, Again("vercel"), NoError)
  \/ await_request_json(1)
  \/ await_sha256Hex(1)
  \/ await_kDate(1)
  \/ await_kRegion(1)
  \/ await_kService(1)
  \/ await_kSigning(1)
  \/ await_signature(1)
  \/ TickConcurrent

SpecBoth == InitBoth /\ [][NextBoth]_vars

(***************************************************************************)
(* SpecPair: one complete configuration answers two requests, one after    *)
(* the other, on either deployment; the two may differ in method and in    *)
(* key.  The clock may advance once; the primitives do not fail.           *)
(***************************************************************************)
PairBodies ==
  {[kind |-> "object", key |-> JSString(k), method |-> JSString(Str(md)), expires |-> Undefined] :
     k \in {Str("a"), Str("/a"), Str("a/")}, md \in {"GET", "PUT", "DELETE"}}

PairRequests ==
  {[impl |-> i, httpMethod |-> "POST", path |-> "/sign", body |-> b] :
     i \in {"worker", "vercel"}, b \in PairBodies}

InitPair ==
  /\ env = FullEnv
  /\ clock = 0
  /\ oracle = <<>>
  /\ calls = <<IdleCall, IdleCall>>
  /\ log = <<>>
  /\ bucket = {} /\ rows = <<>> /\ panels = <<>>
  /\ client = IdleClient(Undefined)

\* Call i may start: it is the first, or the one before it has answered.
MayStart(i) == IF i = 1 THEN TRUE ELSE calls[i - 1].pc = "done"

NextPair ==
  \/ \E i \in DOMAIN calls : MayStart(i) /\ \E req \in PairRequests : fetch(i, req)
  \/ \E i \in DOMAIN calls : MayStart(i) /\ \E req \in PairRequests : handler(i, req, NoError)
  \/ \E i \in DOMAIN calls : await_request_json(i)
  \/ \E i \in DOMAIN calls : await_sha256Hex(i)
  \/ \E i \in DOMAIN calls : await_kDate(i)
  \/ \E i \in DOMAIN calls : await_kRegion(i)
  \/ \E i \in DOMAIN calls : await_kService(i)
  \/ \E i \in DOMAIN calls : await_kSigning(i)
  \/ \E i \in DOMAIN calls : await_signature(i)
  \/ TickConcurrent

SpecPair == InitPair /\ [][NextPair]_vars

(***************************************************************************)
(* The upload panel: src/components/R2UploadPanel.jsx.  A panel is one     *)
(* mounted component in one client's browser:                              *)
(*   usage           the state set by loadUsage                            *)
(*   effect          the loadUsage of the mount effect is still pending    *)
(*   pc              the await at which handleFiles is suspended           *)
(*   valid, n, key   handleFiles' list of files to upload, the index of    *)
(*                   the one being uploaded and its object key             *)
(*   deletes         the invocations of handleDelete in flight: the key of *)
(*                   the file and the await at which each is suspended     *)
(* The bucket holds at most one object per key; rows is the files table.   *)
(* Sizes are counted in KiB: a JavaScript number holds 8 * 1024^3 and the   *)
(* sums below exactly, an integer of the checker does not, and every size  *)
(* here is a whole number of KiB.                                          *)
(***************************************************************************)
GUEST_LIMIT == 1 * 1024 * 1024
USER_LIMIT == 8 * 1024 * 1024

Clients == {1}

\* What a user can select: an empty file, one of 400 MiB and one of 700 MiB.
SelectableFiles ==
  {[name |-> Str("e"), size |-> 0],
   [name |-> Str("b c"), size |-> 400 * 1024],
   [name |-> Str("a"), size |-> 700 * 1024]}
Selections == StringsUpTo(SelectableFiles, MaxBatch) \ {<<>>}

\* filename.replace(/[^a-zA-Z0-9._-]/g, '_')
SafeChars == Str("abcdefghijklmnopqrstuvwxyzABCDEFGHIJKLMNOPQRSTUVWXYZ0123456789._-")
safe(filename) ==
  [i \in 1..Len(filename) |->
     IF \E k \in 1..Len(SafeChars) : SafeChars[k] = filename[i] THEN filename[i] ELSE "_"]

\* String(Date.now()): the seconds and the three digits of the milliseconds.
DateNow(ms) ==
  NatToString(EpochSeconds(ms)) \o padStart(NatToString(ms % 1000), 3, "0")

generateKey(filename, ms) == DateNow(ms) \o Str("_") \o safe(filename)

RECURSIVE SumSizes(_, _)
SumSizes(tbl, guest) ==
  IF tbl = <<>> THEN 0
  ELSE (IF tbl[1].is_guest = guest THEN tbl[1].size ELSE 0) + SumSizes(Tail(tbl), guest)

\* db.getAllFileSizes(): the bytes of the guest rows and of the other rows.
getAllFileSizes(tbl) ==
  [guestBytes |-> SumSizes(tbl, TRUE), userBytes |-> SumSizes(tbl, FALSE)]

NewPanel(guest) ==
  [isGuestMode |-> guest, usage |-> [guestBytes |-> 0, userBytes |-> 0], effect |-> TRUE,
   pc |-> "ready", valid |-> <<>>, n |-> 0, key |-> <<>>,
   files |-> <<>>, isUploading |-> FALSE, uploadProgress |-> {}, error |-> Null,
   deletes |-> {}]

checkQuota(pn, size) ==
  IF pn.isGuestMode
    THEN pn.usage.guestBytes + size <= GUEST_LIMIT
    ELSE pn.usage.userBytes + size <= USER_LIMIT

\* setUploadProgress((p) => ({ ...p, [key]: pct }))
setUploadProgress(progress, key, pct) ==
  {e \in progress : e.key # key} \cup {[key |-> key, pct |-> pct]}

\* The catch and finally blocks of handleFiles.
handleFiles_catch(pn, message) ==
  [pn EXCEPT !.error = JSString(message), !.isUploading = FALSE, !.uploadProgress = {},
             !.pc = "finished"]

\* The head of the upload loop for file number n.
handleFiles_next(pn, n, ms) ==
  LET key == generateKey(pn.valid[n].name, ms)
  IN  [pn EXCEPT !.n = n, !.key = key,
                 !.uploadProgress = setUploadProgress(@, key, 0),
                 !.pc = "getSignedUrl"]

\* The mount effect's loadUsage settles.
useEffect_loadUsage(p, ok) ==
  /\ panels[p].effect
  /\ panels' = [panels EXCEPT ![p] =
       [@ EXCEPT !.effect = FALSE, !.usage = IF ok THEN getAllFileSizes(rows) ELSE @]]
  /\ UNCHANGED <<env, clock, oracle, calls, log, bucket, rows, client>>

\* handleFiles, line 91-110: the quota loop, and the first file's upload up
\* to the await of getSignedUrl.
handleFiles(p, selectedFiles) ==
  /\ panels[p].pc = "ready"
  /\ LET pn == [panels[p] EXCEPT !.error = Null]
         over == {i \in 1..Len(selectedFiles) :
                    selectedFiles[i].size # 0 /\ ~checkQuota(pn, selectedFiles[i].size)}
         valid == SelectSeq(selectedFiles, LAMBDA f : f.size # 0)
     IN  panels' = [panels EXCEPT ![p] =
           IF over # {}
             THEN LET f == selectedFiles[CHOOSE i \in over : \A k \in over : i <= k]
                  IN  [pn EXCEPT !.pc = "finished",
                         !.error = JSString(Str("Uploading ") \o f.name
                                              \o Str(" would exceed your storage quota."))]
           ELSE IF Len(valid) = 0 THEN [pn EXCEPT !.pc = "finished"]
           ELSE handleFiles_next([pn EXCEPT !.isUploading = TRUE, !.valid = valid], 1, clock)]
  /\ UNCHANGED <<env, clock, oracle, calls, log, bucket, rows, client>>

\* uploadToR2, line 63: getSignedUrl(key, 'PUT') settles.
await_getSignedUrl(p, ok) ==
  /\ panels[p].pc = "getSignedUrl"
  /\ panels' = [panels EXCEPT ![p] =
       IF ok THEN [@ EXCEPT !.pc = "xhr"]
       ELSE handleFiles_catch(@, Str("Failed to get signed URL (status 500)"))]
  /\ UNCHANGED <<env, clock, oracle, calls, log, bucket, rows, client>>

\* line 68-73
xhr_onprogress(p, pct) ==
  /\ panels[p].pc = "xhr"
  /\ \E e \in panels[p].uploadProgress : e.key = panels[p].key /\ e.pct < pct
  /\ panels' = [panels EXCEPT ![p] =
       [@ EXCEPT !.uploadProgress = setUploadProgress(@, panels[p].key, pct)]]
  /\ UNCHANGED <<env, clock, oracle, calls, log, bucket, rows, client>>

\* Mutant of xhr_onload: the upload resolves whatever the status.
xhr_onload_anyStatus(p, status) ==
  /\ panels[p].pc = "xhr"
  /\ LET pn == panels[p]
         f == pn.valid[pn.n]
         stored == status >= 200 /\ status < 300
     IN  /\ bucket' = IF stored
                        THEN {o \in bucket : o.key # pn.key}
                               \cup {[key |-> pn.key, size |-> f.size, guest |-> pn.isGuestMode]}
                        ELSE bucket
         /\ panels' = [panels EXCEPT ![p] = [pn EXCEPT !.pc = "insertFileMetadata"]]
  /\ UNCHANGED <<env, clock, oracle, calls, log, rows, client>>

\* line 74-80: the PUT is answered.  R2 stores the object under its key when
\* it answers with a 2xx status.
xhr_onload(p, status) ==
  /\ panels[p].pc = "xhr"
  /\ LET pn == panels[p]
         f == pn.valid[pn.n]
         stored == status >= 200 /\ status < 300
     IN  /\ bucket' = IF stored
                        THEN {o \in bucket : o.key # pn.key}
                               \cup {[key |-> pn.key, size |-> f.size, guest |-> pn.isGuestMode]}
                        ELSE bucket
         /\ panels' = [panels EXCEPT ![p] =
              IF stored THEN [pn EXCEPT !.pc = "insertFileMetadata"]
              ELSE handleFiles_catch(pn, Str("Upload failed with status ") \o NatToString(status))]
  /\ UNCHANGED <<env, clock, oracle, calls, log, rows, client>>

\* line 81
xhr_onerror(p) ==
  /\ panels[p].pc = "xhr"
  /\ panels' = [panels EXCEPT ![p] = handleFiles_catch(@, Str("Network error during upload"))]
  /\ UNCHANGED <<env, clock, oracle, calls, log, bucket, rows, client>>

\* line 115-119: db.insertFileMetadata settles; on success the row exists and
\* is put first in the list.
await_insertFileMetadata(p, ok) ==
  /\ panels[p].pc = "insertFileMetadata"
  /\ LET pn == panels[p]
         f == pn.valid[pn.n]
         meta == [file_name |-> f.name, key |-> pn.key, size |-> f.size,
                  is_guest |-> pn.isGuestMode]
     IN  IF ok
           THEN /\ rows' = Append(rows, meta)
                /\ panels' = [panels EXCEPT ![p] =
                     [pn EXCEPT !.files = <<meta>> \o @, !.pc = "loadUsage"]]
           ELSE /\ rows' = rows
                /\ panels' = [panels EXCEPT ![p] =
                     handleFiles_catch(pn, Str("API Error 500: "))]
  /\ UNCHANGED <<env, clock, oracle, calls, log, bucket, client>>

\* line 122-131: loadUsage settles (its own catch swallows a failure); the
\* loop goes on to the next file or handleFiles ends through finally.
await_loadUsage(p, ok) ==
  /\ panels[p].pc = "loadUsage"
  /\ LET pn == [panels[p] EXCEPT !.usage = IF ok THEN getAllFileSizes(rows) ELSE @]
     IN  panels' = [panels EXCEPT ![p] =
           IF pn.n < Len(pn.valid)
             THEN handleFiles_next(pn, pn.n + 1, clock)
             ELSE [pn EXCEPT !.isUploading = FALSE, !.uploadProgress = {}, !.pc = "finished"]]
  /\ UNCHANGED <<env, clock, oracle, calls, log, bucket, rows, client>>

\* handleDelete, line 133-137: the user confirms (or not) the deletion of a
\* listed file; the invocation runs up to the await of getSignedUrl.
handleDelete(p, fileMeta, confirmed) ==
  /\ \E k \in 1..Len(panels[p].files) : panels[p].files[k] = fileMeta
  /\ \A d \in panels[p].deletes : d.key # fileMeta.key
  /\ panels' = [panels EXCEPT ![p] =
       IF confirmed
         THEN [@ EXCEPT !.deletes = @ \cup {[key |-> fileMeta.key, pc |-> "getSignedUrl"]}]
         ELSE @]
  /\ UNCHANGED <<env, clock, oracle, calls, log, bucket, rows, client>>

\* The invocation for key moves from the await at to the await next.
handleDelete_goto(pn, key, at, next) ==
  [pn EXCEPT !.deletes = (@ \ {[key |-> key, pc |-> at]}) \cup {[key |-> key, pc |-> next]}]

\* line 146-149: the catch block; the invocation ends.
handleDelete_catch(pn, key, at, message) ==
  [pn EXCEPT !.deletes = @ \ {[key |-> key, pc |-> at]}, !.error = JSString(message)]

\* line 137: getSignedUrl(fileMeta.key, 'DELETE') settles.
await_delete_getSignedUrl(p, key, ok) ==
  /\ [key |-> key, pc |-> "getSignedUrl"] \in panels[p].deletes
  /\ panels' = [panels EXCEPT ![p] =
       IF ok THEN handleDelete_goto(@, key, "getSignedUrl", "fetch")
       ELSE handleDelete_catch(@, key, "getSignedUrl",
                               Str("Failed to get signed URL (status 500)"))]
  /\ UNCHANGED <<env, clock, oracle, calls, log, bucket, rows, client>>

\* Mutant of await_delete_fetch: the status of the response is not looked at.
await_delete_fetch_ignoreStatus(p, key, status) ==
  /\ [key |-> key, pc |-> "fetch"] \in panels[p].deletes
  /\ bucket' = IF status = 204 THEN {o \in bucket : o.key # key} ELSE bucket
  /\ panels' = [panels EXCEPT ![p] =
       IF status = 0 THEN handleDelete_catch(@, key, "fetch", Str("Failed to fetch"))
       ELSE handleDelete_goto(@, key, "fetch", "deleteFileMetadata")]
  /\ UNCHANGED <<env, clock, oracle, calls, log, rows, client>>

\* line 138-139: fetch(url, { method: 'DELETE' }) settles: rejected (status
\* 0 here), or answered.  R2 removes the object when it answers 204.
await_delete_fetch(p, key, status) ==
  /\ [key |-> key, pc |-> "fetch"] \in panels[p].deletes
  /\ bucket' = IF status = 204 THEN {o \in bucket : o.key # key} ELSE bucket
  /\ panels' = [panels EXCEPT ![p] =
       IF status = 0 THEN handleDelete_catch(@, key, "fetch", Str("Failed to fetch"))
       ELSE IF status >= 200 /\ status <= 299
         THEN handleDelete_goto(@, key, "fetch", "deleteFileMetadata")
       ELSE handleDelete_catch(@, key, "fetch", Str("Failed to delete object from R2"))]
  /\ UNCHANGED <<env, clock, oracle, calls, log, rows, client>>

\* line 142-144: db.deleteFileMetadata(key) settles; on success the rows of
\* the key are gone and the file leaves the list.
await_deleteFileMetadata(p, key, ok) ==
  /\ [key |-> key, pc |-> "deleteFileMetadata"] \in panels[p].deletes
  /\ IF ok
       THEN /\ rows' = SelectSeq(rows, LAMBDA r : r.key # key)
            /\ panels' = [panels EXCEPT ![p] =
                 handleDelete_goto([@ EXCEPT !.files = SelectSeq(@, LAMBDA f : f.key # key)],
                                   key, "deleteFileMetadata", "loadUsage")]
       ELSE /\ rows' = rows
            /\ panels' = [panels EXCEPT ![p] =
                 handleDelete_catch(@, key, "deleteFileMetadata", Str("API Error 500: "))]
  /\ UNCHANGED <<env, clock, oracle, calls, log, bucket, client>>

\* line 145: loadUsage settles and handleDelete returns.
await_delete_loadUsage(p, key, ok) ==
  /\ [key |-> key, pc |-> "loadUsage"] \in panels[p].deletes
  /\ panels' = [panels EXCEPT ![p] =
       [@ EXCEPT !.deletes = @ \ {[key |-> key, pc |-> "loadUsage"]},
                 !.usage = IF ok THEN getAllFileSizes(rows) ELSE @]]
  /\ UNCHANGED <<env, clock, oracle, calls, log, bucket, rows, client>>

TickPanel ==
  /\ clock < TickMs
  /\ \E p \in Clients : panels[p].pc # "finished"
  /\ clock' = clock + TickMs
  /\ UNCHANGED <<env, oracle, calls, log, bucket, rows, panels, client>>

(***************************************************************************)
(* SpecPanel: a client, guest or not, with the panel mounted on an empty   *)
(* store, selects files once.                                              *)
(***************************************************************************)
InitPanel ==
  /\ env = FullEnv
  /\ clock = 0
  /\ oracle = <<>>
  /\ calls = <<>>
  /\ log = <<>>
  /\ bucket = {}
  /\ rows = <<>>
  /\ \E guest \in BOOLEAN : panels = [p \in Clients |-> NewPanel(guest)]
  /\ client = IdleClient(Undefined)

NextPanel ==
  \/ \E p \in Clients, ok \in BOOLEAN : useEffect_loadUsage(p, ok)
  \/ \E p \in Clients, selectedFiles \in Selections : handleFiles(p, selectedFiles)
  \/ \E p \in Clients, ok \in BOOLEAN : await_getSignedUrl(p, ok)
  \/ \E p \in Clients, pct \in {50, 100} : xhr_onprogress(p, pct)
  \/ \E p \in Clients, status \in {200, 403} : xhr_onload(p, status)
  \/ \E p \in Clients : xhr_onerror(p)
  \/ \E p \in Clients, ok \in BOOLEAN : await_insertFileMetadata(p, ok)
  \/ \E p \in Clients, ok \in BOOLEAN : await_loadUsage(p, ok)
  \/ TickPanel

SpecPanel == InitPanel /\ [][NextPanel]_vars

(***************************************************************************)
(* SpecDelete: a panel is mounted with files already uploaded (the prop    *)
(* existingFiles); the user deletes listed files, several at a time or one *)
(* after another, and again after a failure.                               *)
(***************************************************************************)
ExistingFiles(guest) ==
  <<[file_name |-> Str("a"), key |-> Str("1_a"), size |-> 700 * 1024, is_guest |-> guest],
    [file_name |-> Str("b c"), key |-> Str("2_b_c"), size |-> 400 * 1024, is_guest |-> guest]>>

ExistingKeys == {Str("1_a"), Str("2_b_c")}

InitDelete ==
  /\ env = FullEnv
  /\ clock = 0
  /\ oracle = <<>>
  /\ calls = <<>>
  /\ log = <<>>
  /\ client = IdleClient(Undefined)
  /\ \E guest \in BOOLEAN :
       /\ rows = ExistingFiles(guest)
       /\ bucket = {[key |-> rows[k].key, size |-> rows[k].size, guest |-> guest] :
                      k \in 1..Len(rows)}
       /\ panels = [p \in Clients |-> [NewPanel(guest) EXCEPT !.files = rows]]

NextDelete ==
  \/ \E p \in Clients, isOk \in BOOLEAN : useEffect_loadUsage(p, isOk)
  \/ \E p \in Clients, k \in 1..Len(ExistingFiles(TRUE)), confirmed \in BOOLEAN :
       \E guest \in BOOLEAN : handleDelete(p, ExistingFiles(guest)[k], confirmed)
  \/ \E p \in Clients, key \in ExistingKeys, isOk \in BOOLEAN : await_delete_getSignedUrl(p, key, isOk)
  \/ \E p \in Clients, key \in ExistingKeys, status \in {0, 204, 403} :
       await_delete_fetch(p, key, status)
  \/ \E p \in Clients, key \in ExistingKeys, isOk \in BOOLEAN : await_deleteFileMetadata(p, key, isOk)
  \/ \E p \in Clients, key \in ExistingKeys, isOk \in BOOLEAN : await_delete_loadUsage(p, key, isOk)

SpecDelete == InitDelete /\ [][NextDelete]_vars

(***************************************************************************)
(* Reading a response and a URL back.                                      *)
(***************************************************************************)
IsSign(c) ==
  /\ c.req.httpMethod = "POST"
  /\ c.req.impl = "vercel" \/ c.req.path = "/sign"

Done(c) == c.pc = "done"

\* The string members of a response body.
BodyStrings(r) ==
  IF r.data = Null THEN {}
  ELSE {r.data[f].s : f \in {g \in DOMAIN r.data : r.data[g].t = "string"}}

HasUrl(r) == r.data # Null /\ "url" \in DOMAIN r.data
HasError(r) == r.data # Null /\ "error" \in DOMAIN r.data

\* The calls that returned a URL.
Signed == {i \in DOMAIN calls : Done(calls[i]) /\ IsSign(calls[i]) /\ Len(calls[i].sent) = 1
                                  /\ HasUrl(calls[i].sent[1])}
UrlOf(i) == calls[i].sent[1].data.url.s

\* The part of a URL after its first "?".
QueryOf(url) ==
  LET q == CHOOSE i \in 1..Len(url) : url[i] = "?" /\ \A k \in 1..(i - 1) : url[k] # "?"
  IN  SubSeq(url, q + 1, Len(url))

\* name=value at the first "=".
PairOf(item) ==
  LET e == CHOOSE i \in 1..Len(item) : item[i] = "=" /\ \A k \in 1..(i - 1) : item[k] # "="
  IN  <<SubSeq(item, 1, e - 1), SubSeq(item, e + 1, Len(item))>>

\* The <<name, value>> pairs of a URL's query string, in order, as written.
QueryParams(url) ==
  LET items == split(QueryOf(url), "&") IN [i \in 1..Len(items) |-> PairOf(items[i])]

ParamNames(url) == ObjectKeys(QueryParams(url))

StrictlyAscending(names) ==
  \A i \in 1..(Len(names) - 1) : StrLess(names[i], names[i + 1])

\* What the request asked for, after the defaults.
Asked(c) ==
  Destructure(IF c.req.body.kind = "object" THEN c.req.body ELSE EmptyObject)

\* The request names no usable key, or a method outside GET, PUT, DELETE.
KeyMissingOrEmpty(c) ==
  \/ c.req.body.kind \in {"empty", "null"}
  \/ c.req.body.kind = "object" /\ c.req.body.key \in {Undefined, JSString(<<>>)}

MethodNotAllowed(c) ==
  /\ c.req.body.kind = "object"
  /\ c.req.body.method # Undefined
  /\ c.req.body.method.s \notin {Str("GET"), Str("PUT"), Str("DELETE")}

ValidRequest(c) ==
  /\ c.req.body.kind = "object"
  /\ c.req.body.key \notin {Undefined, JSString(<<>>)}
  /\ ~MethodNotAllowed(c)

Absent == {cr \in Credentials : env[cr] \in {Undefined, JSString(<<>>)}}

(***************************************************************************)
(* Claims.                                                                 *)
(***************************************************************************)
SecretValue == env.R2_SECRET_ACCESS_KEY.s

\* C1: no response body of /sign (the URL, an error message) or of /health
\* contains the value of R2_SECRET_ACCESS_KEY, raw or percent-encoded.
C1_SecretNeverInOutput ==
  \A i \in DOMAIN calls : \A k \in 1..Len(calls[i].sent) :
    ToBoolean(env.R2_SECRET_ACCESS_KEY) =>
      \A str \in BodyStrings(calls[i].sent[k]) :
        /\ ~Contains(str, SecretValue)
        /\ ~Contains(str, encodeURIComponent(SecretValue))

\* A URL has been returned under a configuration that holds a secret, the
\* secret having keyed the signature.
C1_Witness ==
  /\ ToBoolean(env.R2_SECRET_ACCESS_KEY)
  /\ \E i \in Signed : calls[i].loc.secretKey = SecretValue /\ calls[i].ops = 6

\* C2 (as claimed): a /sign request whose key is missing or empty, or whose
\* method is not GET, PUT or DELETE, gets status 400 with an error body, no
\* URL, and no hash or HMAC is computed for it.
C2_InvalidRequestIs400 ==
  \A i \in DOMAIN calls :
    (Done(calls[i]) /\ IsSign(calls[i])
       /\ (KeyMissingOrEmpty(calls[i]) \/ MethodNotAllowed(calls[i]))) =>
      /\ Len(calls[i].sent) = 1
      /\ calls[i].sent[1].status = 400
      /\ HasError(calls[i].sent[1])
      /\ ~HasUrl(calls[i].sent[1])
      /\ calls[i].ops = 0
      /\ ~calls[i].loc.entered

\* C3: a valid request under a configuration with exactly one of the four
\* credentials absent gets status 500 with a message that names that
\* credential and none of the other three; presignUrl is not entered and no
\* hash or HMAC is computed.
C3_OneMissingCredentialNamed ==
  \A i \in DOMAIN calls :
    (Done(calls[i]) /\ IsSign(calls[i]) /\ ValidRequest(calls[i]) /\ Cardinality(Absent) = 1) =>
      /\ Len(calls[i].sent) = 1
      /\ calls[i].sent[1].status = 500
      /\ HasError(calls[i].sent[1])
      /\ ~HasUrl(calls[i].sent[1])
      /\ \A cr \in Credentials :
           Contains(calls[i].sent[1].data.error.s, Str(cr)) <=> cr \in Absent
      /\ ~calls[i].loc.entered
      /\ calls[i].ops = 0
      /\ oracle = <<>>

C3_Witness ==
  \E i \in DOMAIN calls :
    /\ Done(calls[i]) /\ IsSign(calls[i]) /\ ValidRequest(calls[i])
    /\ Absent = {"R2_BUCKET_NAME"}
    /\ calls[i].sent[1].status = 500

IsLowerHex(c) == \E k \in 1..16 : HexDigitsLower[k] = c

\* A complete presigned URL: https://..?..&X-Amz-Signature=<64 lowercase hex>
CompleteUrl(url) ==
  LET n == Len(url)
      tag == Str("&X-Amz-Signature=")
  IN  /\ n > 2 * DigestLen + Len(tag) + 8
      /\ MatchAt(url, Str("https://"), 1)
      /\ \A k \in (n - 2 * DigestLen + 1)..n : IsLowerHex(url[k])
      /\ MatchAt(url, tag, n - 2 * DigestLen - Len(tag) + 1)
      /\ \E q \in 1..n : url[q] = "?"

\* C4: a /sign request gets exactly one response; it carries a url or an
\* error, never both; a url comes only with status 200 and is complete.
C4_OneStructuredResponse ==
  \A i \in DOMAIN calls :
    IsSign(calls[i]) =>
      /\ Len(calls[i].sent) = (IF Done(calls[i]) THEN 1 ELSE 0)
      /\ \A k \in 1..Len(calls[i].sent) :
           LET r == calls[i].sent[k]
           IN  /\ HasUrl(r) # HasError(r)
               /\ HasUrl(r) => r.status = 200 /\ r.data.url.t = "string" /\ CompleteUrl(r.data.url.s)
               /\ HasError(r) => r.status # 200

\* A URL has been returned whose signature has a byte below 16.
C4_Witness ==
  \E i \in Signed :
    /\ calls[i].sent[1].status = 200
    /\ \E k \in 1..DigestLen : calls[i].loc.signature[2 * k - 1] = "0"

\* C5 (as claimed): when presignUrl fails with an exception, the 500 body
\* carries the generic message only; the exception's own message is logged
\* and is not part of the response body.
C5_ExceptionDetailNotInBody ==
  \A i \in DOMAIN calls :
    (Done(calls[i]) /\ IsSign(calls[i]) /\ calls[i].loc.entered /\ Len(calls[i].thrown) > 0) =>
      LET err == calls[i].thrown[1]
          r == calls[i].sent[1]
      IN  /\ r.status = 500
          /\ HasError(r)
          /\ r.data.error.s = Str("Failed to sign")
          /\ Len(err.message) > 0 => ~Contains(r.data.error.s, err.message)
          /\ \E n \in 1..Len(log) : log[n].err = err

\* C8 (as claimed): in every returned URL the parameter names of the query
\* string are in strict lexicographic order by byte value.
C8_UrlParamsAscending ==
  \A i \in Signed : StrictlyAscending(ParamNames(UrlOf(i)))

\* C8 (amended): the parameters of the signed query string - the URL's query
\* without X-Amz-Signature, which is appended last - are in strict
\* lexicographic order by byte value, for GET, PUT and DELETE.
C8_SignedParamsAscending ==
  \A i \in Signed :
    LET names == ParamNames(UrlOf(i))
    IN  /\ Len(names) >= 2
        /\ names[Len(names)] = Str("X-Amz-Signature")
        /\ StrictlyAscending(SubSeq(names, 1, Len(names) - 1))
        /\ SubSeq(UrlOf(i), 1, Len(UrlOf(i)) - 2 * DigestLen - Len(Str("&X-Amz-Signature=")))
             = Str("https://") \o calls[i].loc.host \o calls[i].loc.canonicalUri \o Str("?")
                 \o calls[i].loc.canonicalQueryString

\* A GET has been signed: its query has response-content-disposition after
\* the X-Amz-* parameters.
C8_Witness ==
  \E i \in Signed :
    /\ Asked(calls[i]).method = JSString(Str("GET"))
    /\ Len(ParamNames(UrlOf(i))) = 7

IsPositiveDecimal(s) ==
  /\ Len(s) > 0
  /\ \A k \in 1..Len(s) : IsDigit(s[k])
  /\ \E k \in 1..Len(s) : s[k] # "0"

ParamValue(url, name) == Get(QueryParams(url), name)

\* C9 (as claimed): in every returned URL X-Amz-Expires is the decimal string
\* of a positive integer, whatever expires value the caller sent.
C9_ExpiresPositiveInteger ==
  \A i \in Signed : IsPositiveDecimal(ParamValue(UrlOf(i), Str("X-Amz-Expires")))

\* The file name the claim describes: the text after the last "/", the whole
\* key when it has none, "download" when that text is empty.
RECURSIVE AfterLastSlash(_)
AfterLastSlash(key) ==
  IF \E k \in 1..Len(key) : key[k] = "/"
    THEN AfterLastSlash(SubSeq(key, (CHOOSE k \in 1..Len(key) : key[k] = "/") + 1, Len(key)))
    ELSE key

ExpectedFileName(key) ==
  IF AfterLastSlash(key) = <<>> THEN Str("download") ELSE AfterLastSlash(key)

\* C10: for a GET the signed query has response-content-disposition with the
\* value attachment; filename="<name>", <name> being the last "/"-delimited
\* segment of the key, the whole key if it has no "/", "download" if the
\* last segment is empty.
C10_DispositionFileName ==
  \A i \in Signed :
    Asked(calls[i]).method = JSString(Str("GET")) =>
      LET url == UrlOf(i)
          name == Str("response-content-disposition")
      IN  /\ Has(QueryParams(url), name)
          /\ PercentDecode(ParamValue(url, name))
               = Str("attachment; filename=\"") \o ExpectedFileName(Asked(calls[i]).key.s) \o Str("\"")
          /\ Contains(calls[i].loc.canonicalQueryString,
                      Str("response-content-disposition=") \o ParamValue(url, name))

\* A GET for a key with a "/" that does not end in "/", and one that does.
C10_Witness ==
  \E i \in Signed :
    /\ Asked(calls[i]).method = JSString(Str("GET"))
    /\ Asked(calls[i]).key.s \in {Str("/a"), Str("a/")}

\* Two calls on the same deployment that asked for the same method, key and
\* expires, and both returned a URL.
SamePair(i, j) ==
  /\ i \in Signed /\ j \in Signed /\ i # j
  /\ calls[i].req.impl = calls[j].req.impl
  /\ Asked(calls[i]) = Asked(calls[j])

\* C6: under one configuration, two calls with identical (method, key,
\* expires) whose clock reading is the same instant return identical URLs.
C6_SameInstantSameUrl ==
  \A i, j \in DOMAIN calls :
    (SamePair(i, j) /\ calls[i].now = calls[j].now) => UrlOf(i) = UrlOf(j)

\* Two such calls, the second one finishing after the clock has advanced.
C6_Witness ==
  \E i, j \in DOMAIN calls :
    /\ SamePair(i, j) /\ calls[i].now = calls[j].now
    /\ calls[j].req.impl = "worker"
    /\ clock > calls[j].now

\* C7: under one configuration, two calls with identical (method, key,
\* expires) whose clock readings differ by a second or more return URLs
\* with different X-Amz-Date and different X-Amz-Signature.
C7_LaterInstantDiffers ==
  \A i, j \in DOMAIN calls :
    (SamePair(i, j) /\ calls[j].now - calls[i].now >= 1000) =>
      /\ ParamValue(UrlOf(i), Str("X-Amz-Date")) # ParamValue(UrlOf(j), Str("X-Amz-Date"))
      /\ ParamValue(UrlOf(i), Str("X-Amz-Signature")) # ParamValue(UrlOf(j), Str("X-Amz-Signature"))

\* Two such calls one second apart within the same minute.
C7_Witness ==
  \E i, j \in DOMAIN calls :
    /\ SamePair(i, j) /\ calls[j].now - calls[i].now = 1000
    /\ getUTCMinutes(calls[i].now) = getUTCMinutes(calls[j].now)

(***************************************************************************)
(* The encoders (SpecEncode).                                              *)
(***************************************************************************)
\* The path of a URL: from the first "/" after the scheme to the "?".
PathOf(url) ==
  LET rest == SubSeq(url, Len(Str("https://")) + 1, Len(url))
      p == CHOOSE i \in 1..Len(rest) : rest[i] = "/" /\ \A k \in 1..(i - 1) : rest[k] # "/"
      q == CHOOSE i \in 1..Len(rest) : rest[i] = "?" /\ \A k \in 1..(i - 1) : rest[k] # "?"
  IN  SubSeq(rest, p, q - 1)

\* The part of the path that stands for the object key.
KeyPathOf(url) ==
  LET prefix == Str("/") \o env.R2_BUCKET_NAME.s \o Str("/")
  IN  SubSeq(PathOf(url), Len(prefix) + 1, Len(PathOf(url)))

\* The credential the call signs for, before any encoding.
CredentialOf(c) ==
  join(<<env.R2_ACCESS_KEY_ID.s, slice0(toAmzDate(c.now), 8),
         OrElse(env.R2_REGION, JSString(Str("auto"))).s, Str("s3"), Str("aws4_request")>>, Str("/"))

\* C11: in every returned URL the key's slashes are literal slashes of the
\* path (the path has exactly as many segments as the key and no %2F), the
\* query string has no literal slash, and the X-Amz-Credential value is the
\* credential with each of its slashes written %2F.
C11_SlashInPathEscapedInQuery ==
  \A i \in Signed :
    LET url == UrlOf(i)
        key == Asked(calls[i]).key.s
    IN  /\ Len(split(KeyPathOf(url), "/")) = Len(split(key, "/"))
        /\ ~Contains(KeyPathOf(url), Str("%2F"))
        /\ \A k \in 1..Len(QueryOf(url)) : QueryOf(url)[k] # "/"
        /\ ParamValue(url, Str("X-Amz-Credential"))
             = join(split(CredentialOf(calls[i]), "/"), Str("%2F"))

\* A URL was returned for the key "/a", and its credential has an escaped
\* slash.
C11_Witness ==
  \E i \in Signed :
    /\ Asked(calls[i]).key.s = Str("/a")
    /\ Contains(ParamValue(UrlOf(i), Str("X-Amz-Credential")), Str("%2F"))

Rfc3986Unreserved ==
  Str("ABCDEFGHIJKLMNOPQRSTUVWXYZabcdefghijklmnopqrstuvwxyz0123456789-._~")

\* What RFC 3986 asks of one character of a path: itself if unreserved or a
\* slash, else the uppercase-hex escape of each of its UTF-8 bytes.
Rfc3986PathEscape(c) ==
  IF c = "/" \/ \E k \in 1..Len(Rfc3986Unreserved) : Rfc3986Unreserved[k] = c
    THEN <<c>>
    ELSE LET bs == Utf8OfUnit(c)
         IN  Flatten([k \in 1..Len(bs) |->
                        <<"%", HexDigitsUpper[(bs[k] \div 16) + 1], HexDigitsUpper[(bs[k] % 16) + 1]>>])

\* C12: in every returned URL the key's part of the path is the key with
\* each character other than an unreserved one or a slash replaced by its
\* uppercase-hex percent escapes; it holds no space, no "+" and none of
\* ! ' ( ) * .
C12_PathPercentEncoded ==
  \A i \in Signed :
    LET key == Asked(calls[i]).key.s
        path == KeyPathOf(UrlOf(i))
    IN  /\ path = Flatten([k \in 1..Len(key) |-> Rfc3986PathEscape(key[k])])
        /\ \A k \in 1..Len(path) : path[k] \notin {" ", "+", "!", "'", "(", ")", "*"}

\* A URL was returned for the key " *": a space and a character that
\* encodeURIComponent leaves raw.
C12_Witness ==
  \E i \in Signed :
    /\ Asked(calls[i]).key.s = Str(" *")
    /\ KeyPathOf(UrlOf(i)) = Str("%20%2A")

(***************************************************************************)
(* Concurrent invocations (SpecConcurrent).                                *)
(***************************************************************************)
\* The locals with which presignUrl returns when the Worker's invocation c
\* runs with nothing else between its steps, under the hash and HMAC
\* functions that tbl records.
AloneWorker(a, now, tbl) ==
  LET l0 == presignUrl_sync(a, now)
      h == toHex(Digest(tbl, Q_sha256Hex(l0)))
      l1 == [l0 EXCEPT !.hashedCanonicalRequest = h, !.stringToSign = stringToSignOf(l0, h)]
      l2 == [l1 EXCEPT !.kDate = Digest(tbl, Q_kDate(l1))]
      l3 == [l2 EXCEPT !.kRegion = Digest(tbl, Q_kRegion(l2))]
      l4 == [l3 EXCEPT !.kService = Digest(tbl, Q_kService(l3))]
      l5 == [l4 EXCEPT !.signingKey = Digest(tbl, Q_kSigning(l4))]
      signature == toHex(Digest(tbl, Q_signature(l5)))
  IN  [l5 EXCEPT !.signature = signature, !.presignedUrl = presignedUrlOf(l5, signature)]

Alone(c) == AloneWorker(PresignArgs(Asked(c), env), c.now, oracle)

\* C13: whatever the interleaving, the URL an invocation returns, and every
\* intermediate value it computed, is what the same request, configuration
\* and clock reading give when the invocation runs alone.
C13_ConcurrentAsAlone ==
  \A i \in Signed :
    LET alone == Alone(calls[i])
    IN  /\ calls[i].loc = alone
        /\ UrlOf(i) = alone.presignedUrl

\* Two Worker invocations for different requests both returned a URL, and
\* each had asked for its hash before the other asked for any HMAC.
C13_Witness ==
  /\ Signed = {1, 2}
  /\ calls[1].req.body # calls[2].req.body
  /\ oracle[1] = Q_sha256Hex(calls[1].loc)
  /\ oracle[2] = Q_sha256Hex(calls[2].loc)

(***************************************************************************)
(* The clock reading of one call, and /health (Spec).                      *)
(***************************************************************************)
\* The date in the scope of a URL's X-Amz-Credential.
ScopeDateOf(url) == split(PercentDecode(ParamValue(url, Str("X-Amz-Credential"))), "/")[2]

\* C14: in every returned URL the date of the credential scope is the first
\* 8 characters of X-Amz-Date, is the date of the one clock reading the call
\* made, is the date in the string that was signed, and is the date the
\* signing key was derived from, wherever the clock stands when the call
\* returns.
C14_ClockReadOnce ==
  \A i \in Signed :
    LET c == calls[i]
        date == ScopeDateOf(UrlOf(i))
        amzDate == ParamValue(UrlOf(i), Str("X-Amz-Date"))
        signed == split(c.loc.stringToSign, "\n")
        kDate == HmacQuery(Utf8(Str("AWS4") \o SecretValue), Utf8(date))
    IN  /\ Len(date) = 8
        /\ date = slice0(amzDate, 8)
        /\ amzDate = toAmzDate(c.now)
        /\ signed[2] = amzDate
        /\ split(signed[3], "/")[1] = date
        /\ \E n \in 1..Len(oracle) : oracle[n] = kDate
        /\ c.loc.kDate = Digest(oracle, kDate)

\* A Worker call read the clock before UTC midnight and returned its URL
\* after it.
C14_Witness ==
  \E i \in Signed :
    /\ calls[i].req.impl = "worker"
    /\ getUTCDate(calls[i].now) # getUTCDate(clock)
    /\ ScopeDateOf(UrlOf(i)) = Str("20241231")

\* The responses to GET /health.
HealthResponses ==
  {calls[i].sent[1] : i \in {j \in DOMAIN calls :
     /\ Done(calls[j]) /\ calls[j].req.path = "/health" /\ calls[j].req.httpMethod = "GET"
     /\ Len(calls[j].sent) = 1}}

Configured(cr) == env[cr] \notin {Undefined, JSString(<<>>)}

\* C15: no string of a /health response contains the secret key or the
\* access key id; no signing key exists when it is sent (no HMAC was asked
\* for); and the account id appears only as its first 6 characters at most,
\* followed by an ellipsis.
C15_HealthMasksConfiguration ==
  \A r \in HealthResponses :
    /\ \A str \in BodyStrings(r) :
         /\ Configured("R2_SECRET_ACCESS_KEY") => ~Contains(str, SecretValue)
         /\ Configured("R2_ACCESS_KEY_ID") => ~Contains(str, env.R2_ACCESS_KEY_ID.s)
         /\ Configured("R2_ACCOUNT_ID") /\ Len(env.R2_ACCOUNT_ID.s) > 6
              => ~Contains(str, env.R2_ACCOUNT_ID.s)
    /\ oracle = <<>>
    /\ "accountId" \in DOMAIN r.data =>
         IF Configured("R2_ACCOUNT_ID")
           THEN LET shown == r.data.accountId.s
                IN  /\ Len(shown) <= 7
                    /\ shown[Len(shown)] = Ellipsis
                    /\ SubSeq(shown, 1, Len(shown) - 1)
                         = SubSeq(env.R2_ACCOUNT_ID.s, 1, Len(shown) - 1)
           ELSE r.data.accountId = Null

\* The Worker answered /health under a complete configuration, showing the
\* account acct1234 as acct12 and an ellipsis.
C15_Witness ==
  \E r \in HealthResponses :
    /\ r.status = 200
    /\ Configured("R2_SECRET_ACCESS_KEY") /\ Configured("R2_ACCESS_KEY_ID")
    /\ "accountId" \in DOMAIN r.data
    /\ r.data.accountId = JSString(Str("acct12") \o <<Ellipsis>>)

(***************************************************************************)
(* Defaults, and the order of the checks (Spec).                           *)
(***************************************************************************)
\* The method in the first line of the request that was signed.
SignedMethod(c) == split(c.loc.canonicalRequest, "\n")[1]

\* C16: a signed request without method is signed as PUT and one without
\* expires with X-Amz-Expires=300; a signed request that supplies method or
\* a number of seconds as expires is signed with that method and with that
\* number.
C16_DefaultsElseSupplied ==
  \A i \in Signed :
    LET body == calls[i].req.body
    IN  body.kind = "object" =>
          /\ SignedMethod(calls[i]) = (IF body.method = Undefined THEN Str("PUT") ELSE body.method.s)
          /\ body.expires = Undefined => ParamValue(UrlOf(i), Str("X-Amz-Expires")) = Str("300")
          /\ body.expires # Undefined /\ body.expires.t = "number"
               => ParamValue(UrlOf(i), Str("X-Amz-Expires")) = String(body.expires)

\* The calls that answered a /sign request naming no key or a method
\* outside GET, PUT, DELETE.
AnsweredInvalid ==
  {i \in DOMAIN calls :
     /\ Done(calls[i]) /\ IsSign(calls[i])
     /\ KeyMissingOrEmpty(calls[i]) \/ MethodNotAllowed(calls[i])}

\* C18: an invalid request is answered 400 "Invalid request" whatever the
\* configuration, also one with credentials missing; the answer is not the
\* missing-configuration message, presignUrl was not entered and no hash or
\* HMAC was asked for.
C18_ValidationBeforeConfiguration ==
  \A i \in AnsweredInvalid :
    /\ Len(calls[i].sent) = 1
    /\ calls[i].sent[1].status = 400
    /\ calls[i].sent[1].data = [error |-> JSString(Str("Invalid request"))]
    /\ ~calls[i].loc.entered
    /\ calls[i].ops = 0
    /\ oracle = <<>>

(***************************************************************************)
(* Every subset of missing credentials (SpecConfig).                       *)
(***************************************************************************)
MissingPrefix == Str("Missing R2 configuration: ")

\* The names a missing-configuration message lists: the items between the
\* commas after the prefix, each without the space that follows a comma.
ListedNames(message) ==
  LET items == split(SubSeq(message, Len(MissingPrefix) + 1, Len(message)), ",")
  IN  [k \in 1..Len(items) |->
         IF k > 1 /\ Len(items[k]) > 0 /\ items[k][1] = " " THEN Tail(items[k]) ELSE items[k]]

\* C19: when credentials are absent, a valid request is answered 500 with
\* the missing-configuration prefix followed by a list that has one item for
\* each absent credential, whose items are the names of the absent
\* credentials, and that therefore names none that is present.
C19_MissingListIsExactlyAbsent ==
  \A i \in DOMAIN calls :
    Done(calls[i]) /\ IsSign(calls[i]) /\ ValidRequest(calls[i]) /\ Absent # {} =>
      /\ Len(calls[i].sent) = 1
      /\ calls[i].sent[1].status = 500
      /\ HasError(calls[i].sent[1])
      /\ LET message == calls[i].sent[1].data.error.s
             names == ListedNames(message)
         IN  /\ SubSeq(message, 1, Len(MissingPrefix)) = MissingPrefix
             /\ Len(names) = Cardinality(Absent)
             /\ {names[k] : k \in 1..Len(names)} = {Str(cr) : cr \in Absent}

\* A request was answered under a configuration lacking three credentials
\* that are not adjacent in the order of the tests.
C19_Witness ==
  \E i \in DOMAIN calls :
    /\ Done(calls[i]) /\ IsSign(calls[i]) /\ ValidRequest(calls[i])
    /\ Absent = {"R2_ACCOUNT_ID", "R2_ACCESS_KEY_ID", "R2_SECRET_ACCESS_KEY"}
    /\ calls[i].sent[1].data.error.s
         = MissingPrefix \o Str("R2_ACCOUNT_ID, R2_ACCESS_KEY_ID, R2_SECRET_ACCESS_KEY")

(***************************************************************************)
(* The region (Spec).                                                      *)
(***************************************************************************)
RegionAbsent == env.R2_REGION \in {Undefined, JSString(<<>>)}

\* C20: without R2_REGION a valid request under a configuration with the
\* four credentials is signed (unless a step throws): the scope of its
\* credential and of its string to sign names the region auto, and the
\* region key is the HMAC of auto under the date key.  No error message
\* names R2_REGION.
C20_RegionDefaultsToAuto ==
  /\ \A i \in DOMAIN calls :
       Done(calls[i]) /\ IsSign(calls[i]) /\ Len(calls[i].sent) = 1 /\ HasError(calls[i].sent[1])
         => ~Contains(calls[i].sent[1].data.error.s, Str("R2_REGION"))
  /\ RegionAbsent =>
       /\ \A i \in DOMAIN calls :
            Done(calls[i]) /\ IsSign(calls[i]) /\ ValidRequest(calls[i]) /\ Absent = {}
              /\ calls[i].thrown = <<>>
              => i \in Signed
       /\ \A i \in Signed :
            LET c == calls[i]
                scope == split(PercentDecode(ParamValue(UrlOf(i), Str("X-Amz-Credential"))), "/")
                kRegion == HmacQuery(c.loc.kDate, Utf8(Str("auto")))
            IN  /\ scope[3] = Str("auto")
                /\ split(split(c.loc.stringToSign, "\n")[3], "/")[2] = Str("auto")
                /\ \E n \in 1..Len(oracle) : oracle[n] = kRegion
                /\ c.loc.kRegion = Digest(oracle, kRegion)

\* The Worker returned a URL under a configuration without R2_REGION.
C20_Witness ==
  /\ env.R2_REGION = Undefined
  /\ \E i \in Signed :
       /\ calls[i].req.impl = "worker"
       /\ Contains(UrlOf(i), Str("%2Fauto%2Fs3%2Faws4_request"))

(***************************************************************************)
(* The guest quota (SpecPanel).                                            *)
(***************************************************************************)
RECURSIVE SumOf(_)
SumOf(objects) ==
  IF objects = {} THEN 0
  ELSE LET o == CHOOSE x \in objects : TRUE IN o.size + SumOf(objects \ {o})

\* The bytes of the objects that guest panels have stored in the bucket.
GuestBytesStored == SumOf({o \in bucket : o.guest})

\* C17: the sizes of all stored guest files never add up to more than 1 GB,
\* in the bucket and in the files table.
C17_GuestBytesWithinLimit ==
  /\ GuestBytesStored <= GUEST_LIMIT
  /\ SumSizes(rows, TRUE) <= GUEST_LIMIT

(***************************************************************************)
(* What is signed (Spec).                                                  *)
(***************************************************************************)
\* The lines of the canonical request a call handed to SHA-256.
CanonicalRequestLines(c) == split(c.loc.canonicalRequest, "\n")

\* The call's canonical request has been hashed.
Hashed(c) ==
  \E n \in 1..Len(oracle) : oracle[n] = Sha256Query(Utf8(c.loc.canonicalRequest))

\* The <<name, value>> pairs of the canonical query string that was hashed.
SignedParams(c) ==
  LET items == split(CanonicalRequestLines(c)[3], "&")
  IN  [k \in 1..Len(items) |-> PairOf(items[k])]

\* Only unreserved characters and %XX escapes with uppercase hex digits.
RECURSIVE StrictlyEncoded(_)
StrictlyEncoded(s) ==
  IF s = <<>> THEN TRUE
  ELSE IF s[1] = "%"
    THEN /\ Len(s) >= 3
         /\ \E k \in 1..16 : HexDigitsUpper[k] = s[2]
         /\ \E k \in 1..16 : HexDigitsUpper[k] = s[3]
         /\ StrictlyEncoded(SubSeq(s, 4, Len(s)))
    ELSE /\ \E k \in 1..Len(Rfc3986Unreserved) : Rfc3986Unreserved[k] = s[1]
         /\ StrictlyEncoded(Tail(s))

SigV4Names ==
  <<Str("X-Amz-Algorithm"), Str("X-Amz-Credential"), Str("X-Amz-Date"), Str("X-Amz-Expires"),
    Str("X-Amz-SignedHeaders")>>

\* C21: the canonical query string that is hashed has exactly the five
\* X-Amz-* parameters, and response-content-disposition exactly when the
\* method is GET; each once, in ascending order of byte value; every name
\* and value is strictly percent-encoded (so "=" and "&" occur only as the
\* separators) and decodes to the value that was asked for.
C21_CanonicalQueryString ==
  \A i \in Signed :
    LET c == calls[i]
        params == SignedParams(c)
        names == ObjectKeys(params)
        get == Asked(c).method = JSString(Str("GET"))
    IN  /\ Hashed(c)
        /\ names = IF get THEN Append(SigV4Names, Str("response-content-disposition"))
                          ELSE SigV4Names
        /\ StrictlyAscending(names)
        /\ \A k \in 1..Len(params) : StrictlyEncoded(params[k][1]) /\ StrictlyEncoded(params[k][2])
        /\ CanonicalRequestLines(c)[3]
             = join([k \in 1..Len(params) |-> params[k][1] \o Str("=") \o params[k][2]], Str("&"))
        /\ PercentDecode(Get(params, Str("X-Amz-Algorithm"))) = Str("AWS4-HMAC-SHA256")
        /\ PercentDecode(Get(params, Str("X-Amz-Credential"))) = CredentialOf(c)
        /\ PercentDecode(Get(params, Str("X-Amz-Date"))) = toAmzDate(c.now)
        /\ PercentDecode(Get(params, Str("X-Amz-SignedHeaders"))) = Str("host")
        /\ get => PercentDecode(Get(params, Str("response-content-disposition")))
                    = Str("attachment; filename=\"") \o ExpectedFileName(Asked(c).key.s) \o Str("\"")

\* A GET has been signed; its disposition value is written with escapes.
C21_Witness ==
  \E i \in Signed :
    /\ Asked(calls[i]).method = JSString(Str("GET"))
    /\ Len(SignedParams(calls[i])) = 6
    /\ Get(SignedParams(calls[i]), Str("response-content-disposition"))
         = Str("attachment%3B%20filename%3D%22a%22")

\* The canonical URI of a key: the bucket and the key, each character of the
\* key escaped as RFC 3986 asks of a path.
ExpectedCanonicalUri(key) ==
  Str("/") \o env.R2_BUCKET_NAME.s \o Str("/")
    \o Flatten([k \in 1..Len(key) |-> Rfc3986PathEscape(key[k])])

\* C22: the canonical request that is hashed has exactly seven lines: the
\* method, the canonical URI, the canonical query string, the header line
\* host:<accountId>.r2.cloudflarestorage.com, an empty line (the header
\* line's own newline), the signed-headers value host, and UNSIGNED-PAYLOAD;
\* host is the only signed header of every request.
C22_CanonicalRequest ==
  \A i \in Signed :
    LET c == calls[i]
        lines == CanonicalRequestLines(c)
    IN  /\ Hashed(c)
        /\ Len(lines) = 7
        /\ lines[1] = Asked(c).method.s
        /\ lines[2] = ExpectedCanonicalUri(Asked(c).key.s)
        /\ lines[3] = c.loc.canonicalQueryString
        /\ lines[4] = Str("host:") \o env.R2_ACCOUNT_ID.s \o Str(".r2.cloudflarestorage.com")
        /\ lines[5] = <<>>
        /\ lines[6] = Str("host")
        /\ lines[7] = Str("UNSIGNED-PAYLOAD")
        /\ Get(SignedParams(c), Str("X-Amz-SignedHeaders")) = Str("host")

\* A DELETE of the key "a/" has been signed and its canonical request hashed.
C22_Witness ==
  \E i \in Signed :
    /\ Asked(calls[i]).method = JSString(Str("DELETE"))
    /\ Asked(calls[i]).key.s = Str("a/")
    /\ Hashed(calls[i])
    /\ CanonicalRequestLines(calls[i])[2] = Str("/files/a/")

\* The digest the primitives gave for a query they were asked.
Answered(q) == \E n \in 1..Len(oracle) : oracle[n] = q
Answer(q) == DigestOf(CHOOSE n \in 1..Len(oracle) : oracle[n] = q)

\* Two lowercase hex digits per byte.
LowerHex(bytes) ==
  Flatten([k \in 1..Len(bytes) |->
             <<HexDigitsLower[(bytes[k] \div 16) + 1], HexDigitsLower[(bytes[k] % 16) + 1]>>])

\* The SigV4 derivation for a call, step by step, read from the primitives'
\* answers.
SigV4_datestamp(c) == SubSeq(toAmzDate(c.now), 1, 8)
SigV4_region(c) == OrElse(env.R2_REGION, JSString(Str("auto"))).s
SigV4_credentialScope(c) ==
  SigV4_datestamp(c) \o Str("/") \o SigV4_region(c) \o Str("/s3/aws4_request")
SigV4_hashQuery(c) == Sha256Query(Utf8(c.loc.canonicalRequest))
SigV4_stringToSign(c) ==
  Str("AWS4-HMAC-SHA256") \o Str("\n") \o toAmzDate(c.now) \o Str("\n")
    \o SigV4_credentialScope(c) \o Str("\n") \o LowerHex(Answer(SigV4_hashQuery(c)))
SigV4_kDateQuery(c) ==
  HmacQuery(Utf8(Str("AWS4") \o env.R2_SECRET_ACCESS_KEY.s), Utf8(SigV4_datestamp(c)))
SigV4_kRegionQuery(c) == HmacQuery(Answer(SigV4_kDateQuery(c)), Utf8(SigV4_region(c)))
SigV4_kServiceQuery(c) == HmacQuery(Answer(SigV4_kRegionQuery(c)), Utf8(Str("s3")))
SigV4_kSigningQuery(c) == HmacQuery(Answer(SigV4_kServiceQuery(c)), Utf8(Str("aws4_request")))
SigV4_signatureQuery(c) ==
  HmacQuery(Answer(SigV4_kSigningQuery(c)), Utf8(SigV4_stringToSign(c)))

\* C23: the X-Amz-Signature of every returned URL is the lowercase hex of
\* HMAC(kSigning, stringToSign), where stringToSign is AWS4-HMAC-SHA256, the
\* date, the credential scope and the hex SHA-256 of the canonical request
\* joined by newlines, and kSigning is the chain of HMACs over the date
\* stamp, the region, "s3" and "aws4_request" that starts with the key
\* "AWS4" + secret, each keyed by the raw digest of the step before.
C23_SignatureDerivation ==
  \A i \in Signed :
    LET c == calls[i]
    IN  /\ Answered(SigV4_hashQuery(c))
        /\ Answered(SigV4_kDateQuery(c))
        /\ Answered(SigV4_kRegionQuery(c))
        /\ Answered(SigV4_kServiceQuery(c))
        /\ Answered(SigV4_kSigningQuery(c))
        /\ Answered(SigV4_signatureQuery(c))
        /\ ParamValue(UrlOf(i), Str("X-Amz-Signature"))
             = LowerHex(Answer(SigV4_signatureQuery(c)))

\* The Worker has returned a URL after its six primitives, for a region
\* that is configured.
C23_Witness ==
  \E i \in Signed :
    /\ calls[i].req.impl = "worker"
    /\ calls[i].ops = 6
    /\ env.R2_REGION = JSString(Str("weur"))
    /\ Len(ParamValue(UrlOf(i), Str("X-Amz-Signature"))) = 2 * DigestLen

(***************************************************************************)
(* The two deployments (SpecBoth).                                         *)
(***************************************************************************)
\* C24: when the Worker and the Vercel function have both answered the same
\* request under the same configuration, and read the clock at the same
\* instant if they read it, their answers have the same status and the same
\* body (the same URL, or the same error message).
C24_SameAnswer ==
  (Done(calls[1]) /\ Done(calls[2]) /\ calls[1].now = calls[2].now) =>
    calls[1].sent = calls[2].sent

(***************************************************************************)
(* The URL and what was signed (Spec).                                     *)
(***************************************************************************)
\* The scheme and host of a URL: the text before the first "/" of the path.
OriginOf(url) == SubSeq(url, 1, Len(url) - Len(PathOf(url)) - 1 - Len(QueryOf(url)))

\* C25: every returned URL is https://<accountId>.r2.cloudflarestorage.com,
\* then the canonical URI of the hashed canonical request, then "?" and the
\* hashed canonical query string, then X-Amz-Signature, which is the last
\* parameter and occurs once.
C25_UrlIsWhatWasSigned ==
  \A i \in Signed :
    LET c == calls[i]
        url == UrlOf(i)
        lines == CanonicalRequestLines(c)
        names == ParamNames(url)
    IN  /\ Hashed(c)
        /\ OriginOf(url) = Str("https://") \o env.R2_ACCOUNT_ID.s \o Str(".r2.cloudflarestorage.com")
        /\ PathOf(url) = lines[2]
        /\ QueryOf(url) = lines[3] \o Str("&X-Amz-Signature=")
                            \o ParamValue(url, Str("X-Amz-Signature"))
        /\ names[Len(names)] = Str("X-Amz-Signature")
        /\ Cardinality({k \in 1..Len(names) : names[k] = Str("X-Amz-Signature")}) = 1
        /\ \A k \in 1..Len(ParamValue(url, Str("X-Amz-Signature"))) :
             IsLowerHex(ParamValue(url, Str("X-Amz-Signature"))[k])

\* A URL has been returned for a GET of "a/": six signed parameters and the
\* signature.
C25_Witness ==
  \E i \in Signed :
    /\ Asked(calls[i]).method = JSString(Str("GET"))
    /\ Asked(calls[i]).key.s = Str("a/")
    /\ PathOf(UrlOf(i)) = Str("/files/a/")
    /\ Len(ParamNames(UrlOf(i))) = 7

(***************************************************************************)
(* What a signature is bound to (SpecPair).                                *)
(***************************************************************************)
SignatureOf(i) == ParamValue(UrlOf(i), Str("X-Amz-Signature"))

\* A URL without the value of its X-Amz-Signature.
Unsigned(url) == SubSeq(url, 1, Len(url) - Len(ParamValue(url, Str("X-Amz-Signature"))))

\* C26: of two returned URLs, one for PUT and one for DELETE of the same
\* key with the same expires at the same clock reading, everything but the
\* X-Amz-Signature value is identical and the X-Amz-Signature values differ;
\* and two URLs for different keys never carry the same signature.
C26_SignatureBoundToMethodAndKey ==
  \A i \in Signed, j \in Signed :
    LET a == Asked(calls[i])
        b == Asked(calls[j])
    IN  /\ ( /\ a.method = JSString(Str("PUT"))
             /\ b.method = JSString(Str("DELETE"))
             /\ a.key = b.key
             /\ a.expires = b.expires
             /\ calls[i].now = calls[j].now )
           => /\ Unsigned(UrlOf(i)) = Unsigned(UrlOf(j))
              /\ SignatureOf(i) # SignatureOf(j)
        /\ a.key # b.key => SignatureOf(i) # SignatureOf(j)

\* A PUT and a DELETE of one key were signed at one clock reading, by the
\* two deployments.
C26_Witness ==
  \E i \in Signed, j \in Signed :
    /\ Asked(calls[i]).method = JSString(Str("PUT"))
    /\ Asked(calls[j]).method = JSString(Str("DELETE"))
    /\ Asked(calls[i]).key = Asked(calls[j]).key
    /\ calls[i].now = calls[j].now
    /\ calls[i].req.impl # calls[j].req.impl

(***************************************************************************)
(* Reading the path back (SpecEncode).                                     *)
(***************************************************************************)
IsUpperHex(c) == \E k \in 1..16 : HexDigitsUpper[k] = c

\* The bytes a percent-encoded text stands for; a "%" that starts no escape
\* stands for itself.
RECURSIVE PercentBytes(_)
PercentBytes(s) ==
  IF s = <<>> THEN <<>>
  ELSE IF s[1] = "%" /\ Len(s) >= 3 /\ IsUpperHex(s[2]) /\ IsUpperHex(s[3])
    THEN LET hi == CHOOSE k \in 1..16 : HexDigitsUpper[k] = s[2]
             lo == CHOOSE k \in 1..16 : HexDigitsUpper[k] = s[3]
         IN  <<16 * (hi - 1) + (lo - 1)>> \o PercentBytes(SubSeq(s, 4, Len(s)))
    ELSE <<Code(s[1])>> \o PercentBytes(Tail(s))

CharOfCode(u) == IF u = 233 THEN EAcute ELSE IF u = 10 THEN "\n" ELSE Ascii[u - 31]

\* UTF-8 of one and two bytes read back to characters.
RECURSIVE Utf8Decode(_)
Utf8Decode(bs) ==
  IF bs = <<>> THEN <<>>
  ELSE IF bs[1] < 128 THEN <<CharOfCode(bs[1])>> \o Utf8Decode(Tail(bs))
  ELSE <<CharOfCode((bs[1] - 192) * 64 + (bs[2] - 128))>> \o Utf8Decode(SubSeq(bs, 3, Len(bs)))

\* decodeURIComponent
decodeURIComponent(s) == Utf8Decode(PercentBytes(s))

Slashes(s) == Cardinality({k \in 1..Len(s) : s[k] = "/"})

\* C27: percent-decoding the key's part of the path of a returned URL gives
\* the key back (so two keys never have the same path), and the path has a
\* "/" exactly for each "/" of the key: the text %2F in a key stays an
\* escaped percent sign followed by 2F.
C27_PathRoundTrips ==
  \A i \in Signed :
    LET key == Asked(calls[i]).key.s
        path == KeyPathOf(UrlOf(i))
        segments == split(path, "/")
    IN  /\ decodeURIComponent(path) = key
        /\ Slashes(path) = Slashes(key)
        /\ split(key, "/") = [k \in 1..Len(segments) |-> decodeURIComponent(segments[k])]

\* URLs were returned for keys that hold the text %2F, alone and next to a
\* slash.
C27_Witness ==
  \E i \in Signed :
    \/ Asked(calls[i]).key.s = Str("%2F") /\ KeyPathOf(UrlOf(i)) = Str("%252F")
    \/ Asked(calls[i]).key.s = Str("a%2Fb/c") /\ KeyPathOf(UrlOf(i)) = Str("a%252Fb/c")

(***************************************************************************)
(* The client helper (SpecClient).                                         *)
(***************************************************************************)
ExternalConfigured == ToBoolean(client.signerUrl)

\* The same-origin request did not succeed: the fetch was rejected or the
\* response is not OK.
LocalDidNotSucceed ==
  /\ Len(client.answers) >= 1
  /\ client.answers[1] = Rejected \/ ~ResponseOk(client.answers[1])

ContactedExternal ==
  \E n \in 1..Len(client.contacted) : client.contacted[n].url = Str("https://w.dev/sign")

\* C28: when getSignedUrl has failed although an external signer is
\* configured and the same-origin request did not succeed, the external
\* signer was asked first; the external signer is never asked when the
\* same-origin response is OK; and getSignedUrl returns only the non-empty
\* url of an OK response, the last one received.
C28_FallbackBeforeFailure ==
  /\ (client.settled.kind = "rejected" /\ ExternalConfigured /\ LocalDidNotSucceed)
       => ContactedExternal
  /\ (Len(client.answers) >= 1 /\ client.answers[1] # Rejected /\ ResponseOk(client.answers[1]))
       => ~ContactedExternal
  /\ client.settled.kind = "fulfilled"
       => /\ ResponseOk(client.resp)
          /\ client.resp.body.kind = "json"
          /\ client.settled.value = client.resp.body.url
          /\ Len(client.settled.value.s) > 0

(***************************************************************************)
(* Uploads (SpecPanel).                                                    *)
(***************************************************************************)
\* The errors handleFiles shows when signing or the PUT failed.
SignOrUploadFailures ==
  {JSString(Str("Failed to get signed URL (status 500)")),
   JSString(Str("Upload failed with status 403")),
   JSString(Str("Network error during upload"))}

\* C29: every metadata row is the row of an object that a 2xx PUT has
\* stored; once handleFiles has finished, isUploading is false and
\* uploadProgress is empty; and when it finished because signing or the PUT
\* of file n failed, the rows are those of the n - 1 files before it, in
\* order, and the bucket holds no object but theirs: nothing of file n or of
\* the files after it.
C29_MetadataOnlyAfterUpload ==
  \A p \in Clients :
    LET pn == panels[p]
    IN  /\ \A k \in 1..Len(rows) :
             \E o \in bucket : o.key = rows[k].key /\ o.size = rows[k].size
        /\ pn.pc = "finished" => (~pn.isUploading /\ pn.uploadProgress = {})
        /\ (pn.pc = "finished" /\ pn.error \in SignOrUploadFailures) =>
             /\ Len(rows) = pn.n - 1
             /\ \A k \in 1..Len(rows) : rows[k].file_name = pn.valid[k].name
             /\ \A o \in bucket : \E k \in 1..Len(rows) : rows[k].key = o.key

\* handleFiles has finished because the PUT of the second file of a batch
\* was refused, after the first file was stored and recorded.
C29_Witness ==
  \E p \in Clients :
    /\ panels[p].pc = "finished"
    /\ panels[p].error = JSString(Str("Upload failed with status 403"))
    /\ panels[p].n = 2
    /\ Len(rows) = 1

(***************************************************************************)
(* Deletions (SpecDelete).                                                 *)
(***************************************************************************)
Stored(key) == \E o \in bucket : o.key = key
Recorded(key) == \E k \in 1..Len(rows) : rows[k].key = key
Listed(p, key) == \E k \in 1..Len(panels[p].files) : panels[p].files[k].key = key

\* The invocation of handleDelete for key is suspended at one of the awaits
\* in ats.
DeleteAt(p, key, ats) == \E d \in panels[p].deletes : d.key = key /\ d.pc \in ats

\* The errors handleDelete shows when signing or the DELETE failed.
SignOrDeleteFailures ==
  {JSString(Str("Failed to get signed URL (status 500)")),
   JSString(Str("Failed to fetch")),
   JSString(Str("Failed to delete object from R2"))}

\* C30: as long as the object store has not answered OK to a DELETE of a
\* file's object (the object is still stored), the file has its metadata
\* row and is in the displayed list; and a step in which handleDelete ends
\* while signing or awaiting the object-store DELETE leaves the rows and the
\* list as they were and sets the error that is shown.
C30_DeleteOnlyAfterStoreDelete ==
  /\ [](\A p \in Clients, key \in ExistingKeys : Stored(key) => (Recorded(key) /\ Listed(p, key)))
  /\ [][\A p \in Clients, key \in ExistingKeys :
          ( /\ DeleteAt(p, key, {"getSignedUrl", "fetch"})
            /\ ~\E d \in panels'[p].deletes : d.key = key )
          => /\ rows' = rows
             /\ panels'[p].files = panels[p].files
             /\ panels'[p].error \in SignOrDeleteFailures]_vars

\* One file has been deleted, object, row and list entry; the DELETE of the
\* other was refused, and it is still stored, recorded and listed, with the
\* error shown.
C30_Witness ==
  \E p \in Clients :
    /\ panels[p].deletes = {}
    /\ panels[p].error = JSString(Str("Failed to delete object from R2"))
    /\ ~Stored(Str("1_a")) /\ ~Recorded(Str("1_a")) /\ ~Listed(p, Str("1_a"))
    /\ Stored(Str("2_b_c")) /\ Recorded(Str("2_b_c")) /\ Listed(p, Str("2_b_c"))

====
